---- MODULE Spec2Model ----
(***************************************************************************)
(* The aggregation core of the perpetual-futures whale dashboards:         *)
(* aggregate_positions, build_liq_map, get_biggest_positions and the       *)
(* trader rankings of fetchers/fetch_hyperliquid.py, fetch_drift.py,       *)
(* fetch_gmx.py and fetch_data.py.                                         *)
(*                                                                         *)
(* Numbers.  Prices, liquidation prices and bucket widths are Python       *)
(* floats; here they are exact decimals counted in thousandths (0.21 is    *)
(* 210, 100000 is 100000000), so that 0.5 * P, 1.5 * P and the widths 0.1  *)
(* and 0.01 are exact.  Notional values and sizes are plain integers.      *)
(* A liquidation price above 1e12 does not fit TLC's integers and          *)
(* is carried as the kind "huge".                                          *)
(*                                                                         *)
(* Dictionaries.  A position is a Python dict: a function whose DOMAIN is  *)
(* the set of keys present.  An insertion-ordered dict that the code       *)
(* iterates (agg, liq_by_coin, pos_map, result) is a sequence of entries.  *)
(***************************************************************************)
EXTENDS Integers, Sequences, FiniteSets, TLC

\* ------------------------------------------------------------------ bounds
\* Positions over all fetched accounts in one run.
MaxPositions == 2
\* Entities handed to a ranking function, and the largest cut n tried.
MaxRanked == 3
\* Raw position records of one account.
MaxRaw == 2
\* Coins held in a run that reaches the cap of aggregate_positions.
MaxCoins == 26
\* Leaderboard rows of a run of main().
MaxRows == 2
\* Positions at risk in a run that reaches the cap of get_liq_risks, and
\* positions of a run that stays far below it.
MaxRisks == 201
MaxRiskPositions == 2
\* Raw actions of a GMX trader, and the traders of a run that reaches the
\* cut of build_trader_list.
MaxActions == 3
MaxTraders == 201
\* Market records in an answer of the Drift data API, and the symbols of
\* MAJOR_MARKETS that the Binance fallback asks for.
MaxMarkets == 3
MaxMajors == 3
\* Addresses handed to fetch_all_positions, and the threads of its pool.
MaxFutures == 3
MaxWorkers == 2

\* ------------------------------------------------------- program constants
\* aggregate_positions: result[:25]
AGG_CAP == 25
\* TOP_N of fetch_hyperliquid.py (default n of the rankings)
TOP_N == 500

\* ----------------------------------------------------------------- helpers
Min(a, b) == IF a < b THEN a ELSE b

\* s[:n] for n >= 0
Take(s, n) == SubSeq(s, 1, Min(n, Len(s)))

RECURSIVE SumSeq(_)
SumSeq(s) == IF s = <<>> THEN 0 ELSE Head(s) + SumSeq(Tail(s))

RECURSIVE Concat(_)
Concat(ss) ==
    IF ss = <<>> THEN <<>>
    ELSE IF Len(ss) = 1 THEN ss[1]
    ELSE LET h == Len(ss) \div 2
         IN  Concat(SubSeq(ss, 1, h)) \o Concat(SubSeq(ss, h + 1, Len(ss)))

\* dict.get(key, default)
Get(d, k, default) == IF k \in DOMAIN d THEN d[k] ELSE default

\* p.update(extra): the keys of extra are written into p itself, and the
\* record handed on is p
spread_in_place(p, extra) ==
    LET merged == [k \in DOMAIN p \cup DOMAIN extra |->
                     IF k \in DOMAIN extra THEN extra[k] ELSE p[k]]
    IN  [fresh |-> merged, source |-> merged]

\* {**p, key: value, ...} (and pos.copy() followed by assignments to the
\* copy): a new dict with p's keys and the keys of extra; `source` is p as
\* the expression leaves it
spread(p, extra) ==
    [fresh  |-> [k \in DOMAIN p \cup DOMAIN extra |->
                   IF k \in DOMAIN extra THEN extra[k] ELSE p[k]],
     source |-> p]

\* list.sort left out: the sequence in its own order
SortAsIs(s, keys) == s

\* a descending sort that is not stable: of two elements with equal keys the
\* later one comes first
SortDescTiesReversed(s, keys) ==
    LET n == Len(s)
        place == [i \in 1..n |->
                    1 + Cardinality({j \in 1..n :
                                       keys[j] > keys[i] \/ (keys[j] = keys[i] /\ j > i)})]
    IN  IF DOMAIN place = {} THEN <<>>
        ELSE [k \in 1..n |-> s[CHOOSE i \in 1..n : place[i] = k]]

\* s.sort(key=lambda x: keys[index of x], reverse=True): Python's sort is
\* stable, and with reverse=True elements with equal keys keep their original
\* order
SortDesc(s, keys) ==
    LET n == Len(s)
        \* an element comes after the elements with a greater key and after
        \* the elements with an equal key that stood before it
        place == [i \in 1..n |->
                    1 + Cardinality({j \in 1..n :
                                       keys[j] > keys[i] \/ (keys[j] = keys[i] /\ j < i)})]
    \* the places are asked for first so that TLC works them out once
    IN  IF DOMAIN place = {} THEN <<>>
        ELSE [k \in 1..n |-> s[CHOOSE i \in 1..n : place[i] = k]]

\* sorted(keys, reverse=True): SortedAsc with the order turned round
RECURSIVE SortedDescending(_)
SortedDescending(S) ==
    IF S = {} THEN <<>>
    ELSE LET m == CHOOSE x \in S : \A y \in S : x >= y
         IN  <<m>> \o SortedDescending(S \ {m})

\* sorted(keys): ascending sequence of a finite set of integers
RECURSIVE SortedAsc(_)
SortedAsc(S) ==
    IF S = {} THEN <<>>
    ELSE LET m == CHOOSE x \in S : \A y \in S : x <= y
         IN  <<m>> \o SortedAsc(S \ {m})

\* ------------------------------------------------------------ data model
DEXES == {"hyperliquid", "drift", "gmx"}

Tiers == {"10x", "25x", "50x", "100x"}

\* The value the normalizers store under 'liquidationPx': the exchange's
\* string (Hyperliquid passes it through, JSON null included), str(number)
\* or '' (Drift, GMX).  kind "num" carries the number the string spells, in
\* thousandths; "huge" is a number above 1e12; "text" is a string float()
\* rejects.
LiqNone == [kind |-> "none", num |-> 0]
LiqEmpty == [kind |-> "empty", num |-> 0]
LiqText == [kind |-> "text", num |-> 0]
LiqHuge == [kind |-> "huge", num |-> 0]
LiqNum(x) == [kind |-> "num", num |-> x]

\* p.get('liquidationPx'): None when the key is missing
get_liquidationPx(p) == Get(p, "liquidationPx", LiqNone)

\* Python truthiness of the stored value: None and '' are falsy
Truthy(raw) == raw.kind \notin {"none", "empty"}

\* float(liq) raises ValueError on a non-numeric string
FloatRaises(raw) == raw.kind = "text"

\* the bounds test left out: every number is taken
OutOfBoundsNever(raw) == FALSE

\* liq <= 0 or liq > 1e12, on the parsed number
OutOfBounds(raw) == \/ raw.kind = "huge"
                    \/ raw.kind = "num" /\ raw.num <= 0

\* ------------------------------------------------------- get_bucket_size
\* Widths and prices are in thousandths.
\* get_bucket_size with > where the code has >=
get_bucket_size_above(coin, price) ==
    CASE coin = "BTC" -> 1000000
      [] coin = "ETH" -> 50000
      [] coin = "SOL" -> 5000
      [] coin = "BNB" -> 10000
      [] OTHER ->
           IF price > 10000000 THEN 500000
           ELSE IF price > 1000000 THEN 100000
           ELSE IF price > 100000 THEN 10000
           ELSE IF price > 10000 THEN 1000
           ELSE IF price > 1000 THEN 100
           ELSE 10

\* get_bucket_size of fetch_drift.py
drift_get_bucket_size(coin, price) ==
    LET buckets == [c \in {"BTC", "ETH", "SOL", "BNB"} |->
                      CASE c = "BTC" -> 1000000 [] c = "ETH" -> 50000
                        [] c = "SOL" -> 5000 [] OTHER -> 10000]
    IN  IF coin \in DOMAIN buckets THEN buckets[coin]
        ELSE IF price >= 10000000 THEN 500000
        ELSE IF price >= 1000000 THEN 100000
        ELSE IF price >= 100000 THEN 10000
        ELSE IF price >= 10000 THEN 1000
        ELSE IF price >= 1000 THEN 100
        ELSE 10

\* get_bucket_size of fetch_gmx.py
gmx_get_bucket_size(coin, price) ==
    LET buckets == [c \in {"BTC", "ETH", "SOL", "BNB"} |->
                      CASE c = "BTC" -> 1000000 [] c = "ETH" -> 50000
                        [] c = "SOL" -> 5000 [] OTHER -> 10000]
    IN  IF coin \in DOMAIN buckets THEN buckets[coin]
        ELSE IF price >= 10000000 THEN 500000
        ELSE IF price >= 1000000 THEN 100000
        ELSE IF price >= 100000 THEN 10000
        ELSE IF price >= 10000 THEN 1000
        ELSE IF price >= 1000 THEN 100
        ELSE 10

\* get_bucket_size of fetch_hyperliquid.py
get_bucket_size(coin, price) ==
    CASE coin = "BTC" -> 1000000
      [] coin = "ETH" -> 50000
      [] coin = "SOL" -> 5000
      [] coin = "BNB" -> 10000
      [] OTHER ->
           IF price >= 10000000 THEN 500000
           ELSE IF price >= 1000000 THEN 100000
           ELSE IF price >= 100000 THEN 10000
           ELSE IF price >= 10000 THEN 1000
           ELSE IF price >= 1000 THEN 100
           ELSE 10

\* ------------------------------------------------------------ get_lev_cat
\* get_lev_cat with > where the code has >=
get_lev_cat_above(lev) ==
    IF lev > 100 THEN "100x"
    ELSE IF lev > 50 THEN "50x"
    ELSE IF lev > 25 THEN "25x"
    ELSE "10x"

\* get_lev_cat of fetch_drift.py
drift_get_lev_cat(lev) ==
    IF lev >= 100 THEN "100x"
    ELSE IF lev >= 50 THEN "50x"
    ELSE IF lev >= 25 THEN "25x"
    ELSE "10x"

\* get_lev_cat of fetch_gmx.py
gmx_get_lev_cat(lev) ==
    IF lev >= 100 THEN "100x"
    ELSE IF lev >= 50 THEN "50x"
    ELSE IF lev >= 25 THEN "25x"
    ELSE "10x"

\* get_lev_cat of fetch_hyperliquid.py
get_lev_cat(lev) ==
    IF lev >= 100 THEN "100x"
    ELSE IF lev >= 50 THEN "50x"
    ELSE IF lev >= 25 THEN "25x"
    ELSE "10x"

\* round(x, 2) of a non-negative number in thousandths: the nearest multiple
\* of 10, a tie going to the even hundredth
Round2(x) ==
    LET q == x \div 10
        r == x % 10
    IN  IF r < 5 THEN q * 10
        ELSE IF r > 5 THEN (q + 1) * 10
        ELSE IF q % 2 = 0 THEN q * 10 ELSE (q + 1) * 10

\* bucket_key without math.floor: the key is the rounded liquidation price
bucket_key_unfloored(liq, bucket_size) == Round2(liq)

\* key = round(math.floor(liq / bucket_size) * bucket_size, 2)
bucket_key(liq, bucket_size) == Round2((liq \div bucket_size) * bucket_size)

\* in_valid_range without the lower bound: only liq > max_p is rejected
in_valid_range_no_floor(liq, curr) == ~(2 * liq > 3 * curr)

\* not (liq < min_p or liq > max_p), with min_p, max_p = curr * 0.5, curr * 1.5
in_valid_range(liq, curr) == ~(2 * liq < curr \/ 2 * liq > 3 * curr)

\* ---------------------------------------------------- aggregate_positions
\* for t in traders: for p in t.get('positions', []): the positions in
\* iteration order
all_positions(traders) == Concat([i \in 1..Len(traders) |-> traders[i].positions])

ZeroAgg(c) == [coin |-> c, long |-> 0, short |-> 0, longSize |-> 0, shortSize |-> 0]

\* agg_add with the else branch a copy of the if branch: every position is
\* added to the long side
agg_add_all_long(agg, c, isLong, val, size) ==
    LET has == \E i \in 1..Len(agg) : agg[i].coin = c
        a   == IF has THEN agg ELSE Append(agg, ZeroAgg(c))
    IN  [i \in 1..Len(a) |->
           IF a[i].coin # c THEN a[i]
           ELSE [a[i] EXCEPT !.long = @ + val, !.longSize = @ + size]]

\* agg[c][side] += val; agg[c][side + 'Size'] += size on the defaultdict agg,
\* kept in insertion order
agg_add(agg, c, isLong, val, size) ==
    LET has == \E i \in 1..Len(agg) : agg[i].coin = c
        a   == IF has THEN agg ELSE Append(agg, ZeroAgg(c))
    IN  [i \in 1..Len(a) |->
           IF a[i].coin # c THEN a[i]
           ELSE IF isLong
                THEN [a[i] EXCEPT !.long = @ + val, !.longSize = @ + size]
                ELSE [a[i] EXCEPT !.short = @ + val, !.shortSize = @ + size]]

\* The keys aggregate_positions subscripts: p['coin'], p['direction'],
\* p['positionValue'], p['size'] raise KeyError when missing (Hyperliquid,
\* Drift); GMX reads every one of them with p.get and a default.
agg_raises(dex, p) ==
    /\ dex # "gmx"
    /\ ~({"coin", "direction", "positionValue", "size"} \subseteq DOMAIN p)

RECURSIVE agg_loop(_, _, _)
agg_loop(dex, agg, ps) ==
    IF ps = <<>> THEN [raised |-> FALSE, agg |-> agg]
    ELSE LET p == Head(ps) IN
         IF agg_raises(dex, p) THEN [raised |-> TRUE, agg |-> agg]
         ELSE LET next == agg_add(agg,
                                  Get(p, "coin", "BTC"),
                                  "direction" \in DOMAIN p /\ p["direction"] = "Long",
                                  Get(p, "positionValue", 0),
                                  Get(p, "size", 0))
              \* agg holds a coin after every pass; the comparison has TLC
              \* work the mapping out pass by pass
              IN  IF next = <<>> THEN [raised |-> FALSE, agg |-> next]
                  ELSE agg_loop(dex, next, Tail(ps))

\* result[:25] (Hyperliquid, Drift); GMX returns the whole list
agg_cut(dex, result) == IF dex = "gmx" THEN result ELSE Take(result, AGG_CAP)

\* [raised |-> TRUE] when an exception leaves the function, else the list
aggregate_positions(dex, traders) ==
    LET r == agg_loop(dex, <<>>, all_positions(traders)) IN
    IF r.raised THEN [raised |-> TRUE, value |-> <<>>]
    ELSE LET result == [i \in 1..Len(r.agg) |->
                          [coin |-> r.agg[i].coin,
                           long |-> r.agg[i].long,
                           short |-> r.agg[i].short,
                           longSize |-> r.agg[i].longSize,
                           shortSize |-> r.agg[i].shortSize,
                           total |-> r.agg[i].long + r.agg[i].short]]
             sorted == SortDesc(result, [i \in 1..Len(result) |-> result[i].total])
         IN  [raised |-> FALSE, value |-> agg_cut(dex, sorted)]


\* ---------------------------------------------------------- build_liq_map
\* for t in traders: for p in t.get('positions', []), with t.get('address', '')
tagged_positions(traders) ==
    Concat([i \in 1..Len(traders) |->
              [j \in 1..Len(traders[i].positions) |->
                 [p |-> traders[i].positions[j], address |-> traders[i].address]]])

\* {**p, 'liquidationPx': liq, 'traderAddress': t.get('address', '')}: a new
\* dict, the position itself is left as it is
liq_entry(p, liq, address) ==
    spread(p, [liquidationPx |-> liq, traderAddress |-> address]).fresh

\* liq_by_coin[coin].append(entry) on the defaultdict(list), in insertion order
group_append(groups, coin, entry) ==
    IF \E i \in 1..Len(groups) : groups[i].coin = coin
    THEN [i \in 1..Len(groups) |->
            IF groups[i].coin = coin
            THEN [groups[i] EXCEPT !.positions = Append(@, entry)]
            ELSE groups[i]]
    ELSE Append(groups, [coin |-> coin, positions |-> <<entry>>])

\* One pass of the first loop: the position joins its coin's list unless its
\* liquidation price is falsy, not a number, <= 0 or > 1e12, or p['coin']
\* raises inside the try
group_step(groups, p, address) ==
    LET raw == get_liquidationPx(p) IN
    IF ~Truthy(raw) THEN groups
    ELSE IF FloatRaises(raw) THEN groups
    ELSE IF OutOfBounds(raw) THEN groups
    ELSE IF "coin" \notin DOMAIN p THEN groups
    ELSE group_append(groups, p["coin"], liq_entry(p, raw.num, address))

RECURSIVE group_loop(_, _)
group_loop(groups, tps) ==
    IF tps = <<>> THEN groups
    ELSE group_loop(group_step(groups, Head(tps).p, Head(tps).address), Tail(tps))

\* liq_by_coin kept across calls (a module-level mapping): a call goes on
\* from what the previous call left
stale_liq_by_coin(previous) == previous

\* liq_by_coin = defaultdict(list): every call starts from an empty mapping
fresh_liq_by_coin(previous) == <<>>

\* The lookup by subscript, markets_dict[coin]['markPx']: a KeyError for a
\* coin the table does not hold
market_subscript(table, coin) ==
    [raised |-> coin \notin DOMAIN table, value |-> Get(table, coin, 0)]

\* The current price of a coin: markets_dict.get(coin, {}).get('markPx', 0)
\* (Hyperliquid), prices.get(coin, {}) then its 'price' (Drift),
\* prices.get(coin, 0) (GMX): 0 for a coin the table does not hold, and
\* never an exception
market_get(table, coin) == [raised |-> FALSE, value |-> Get(table, coin, 0)]

current_price(table, coin) == market_get(table, coin).value

ZeroTiers == [c \in Tiers |-> 0]

\* buckets[key][cat] = value: the value takes the place of the sum
bucket_add_overwrite(buckets, key, cat, value) ==
    [k \in DOMAIN buckets \cup {key} |->
       IF k = key
       THEN [c \in Tiers |-> IF c = cat THEN value
                             ELSE IF key \in DOMAIN buckets THEN buckets[key][c] ELSE 0]
       ELSE buckets[k]]

\* buckets[key][cat] += value on defaultdict(lambda: {'10x': 0, ...})
bucket_add(buckets, key, cat, value) ==
    IF key \in DOMAIN buckets
    THEN [buckets EXCEPT ![key][cat] = @ + value]
    ELSE [k \in DOMAIN buckets \cup {key} |->
            IF k = key THEN [ZeroTiers EXCEPT ![cat] = value] ELSE buckets[k]]

\* str.lower() on the directions the normalizers write
Lower(d) == CASE d = "Long" -> "long" [] d = "Short" -> "short" [] OTHER -> d

\* d == 'long' with d = p['direction'].lower() (Hyperliquid);
\* p['direction'] == 'Long' (Drift, GMX)
is_long(dex, p) ==
    IF dex = "hyperliquid" THEN Lower(p["direction"]) = "long"
    ELSE p["direction"] = "Long"

\* p['leverage'], p['direction'], p['positionValue'] are subscripted outside
\* any try: a missing key leaves build_liq_map as a KeyError
bucket_raises(p) == ~({"leverage", "direction", "positionValue"} \subseteq DOMAIN p)

\* The loop over one coin's positions
RECURSIVE bucket_loop(_, _, _, _, _)
bucket_loop(dex, st, ps, curr, bucket_size) ==
    IF ps = <<>> \/ st.raised THEN st
    ELSE LET p   == Head(ps)
             liq == p["liquidationPx"]
         IN  IF ~in_valid_range(liq, curr)
             THEN bucket_loop(dex, st, Tail(ps), curr, bucket_size)
             ELSE IF bucket_raises(p) THEN [st EXCEPT !.raised = TRUE]
             ELSE LET key == bucket_key(liq, bucket_size)
                      cat == get_lev_cat(p["leverage"])
                  IN  bucket_loop(dex,
                        IF is_long(dex, p)
                        THEN [st EXCEPT !.long = bucket_add(@, key, cat, p["positionValue"])]
                        ELSE [st EXCEPT !.short = bucket_add(@, key, cat, p["positionValue"])],
                        Tail(ps), curr, bucket_size)

tier_sum(v) == v["10x"] + v["25x"] + v["50x"] + v["100x"]

\* keep_bucket without the filter: every bucket is emitted
keep_bucket_always(v) == TRUE

\* if sum(v.values()) > 0
keep_bucket(v) == tier_sum(v) > 0

\* [{'price': k, '10x': v['10x'], ...} for k, v in sorted(buckets.items())
\*  if sum(v.values()) > 0]
bucket_list(buckets) ==
    LET keys == SortedAsc(DOMAIN buckets)
        all  == [i \in 1..Len(keys) |->
                   [f \in Tiers \cup {"price"} |->
                      IF f = "price" THEN keys[i] ELSE buckets[keys[i]][f]]]
        Kept(e) == keep_bucket(e)
    IN  SelectSeq(all, Kept)

\* too_few with the threshold off by one: a single position is enough
too_few_below_one(positions) == Len(positions) < 1

\* if len(positions) < 2: continue
too_few(positions) == Len(positions) < 2

\* One pass of the loop over liq_by_coin.items(): the coin's output entry,
\* or skip, or an exception
coin_map(dex, group, prices) ==
    LET market == market_get(prices, group.coin)
        curr   == market.value
        none   == [skip |-> TRUE, raised |-> FALSE, entry |-> <<>>]
    IN  IF too_few(group.positions) THEN none
        ELSE IF market.raised THEN [skip |-> FALSE, raised |-> TRUE, entry |-> <<>>]
        ELSE IF curr <= 0 THEN none
        ELSE LET st == bucket_loop(dex, [raised |-> FALSE, long |-> <<>>, short |-> <<>>],
                                   group.positions, curr,
                                   get_bucket_size(group.coin, curr))
                 long_list  == bucket_list(st.long)
                 short_list == bucket_list(st.short)
             IN  IF st.raised THEN [skip |-> FALSE, raised |-> TRUE, entry |-> <<>>]
                 ELSE IF long_list = <<>> /\ short_list = <<>> THEN none
                 ELSE [skip |-> FALSE, raised |-> FALSE,
                       entry |-> <<[coin |-> group.coin,
                                    currentPrice |-> curr,
                                    longLiquidations |-> long_list,
                                    shortLiquidations |-> short_list]>>]

\* build_liq_map(traders, markets_dict) started with the mapping `previous`
\* in the name liq_by_coin: the result (coin entries in insertion order), or
\* raised, and the mapping liq_by_coin the call built
build_liq_map(dex, traders, prices, previous) ==
    LET groups == group_loop(fresh_liq_by_coin(previous), tagged_positions(traders))
        maps   == [i \in 1..Len(groups) |-> coin_map(dex, groups[i], prices)]
    IN  [raised |-> \E i \in 1..Len(maps) : maps[i].raised,
         value  |-> IF \E i \in 1..Len(maps) : maps[i].raised THEN <<>>
                    ELSE Concat([i \in 1..Len(maps) |-> maps[i].entry]),
         liq_by_coin |-> groups]

\* The trader list as build_liq_map leaves it: a position that joined its
\* coin's list went through {**p, ...}, any other position was only read
traders_after_build_liq_map(traders) ==
    [i \in 1..Len(traders) |->
       [traders[i] EXCEPT !.positions =
          [j \in 1..Len(traders[i].positions) |->
             LET p == traders[i].positions[j] IN
             IF group_step(<<>>, p, traders[i].address) = <<>> THEN p
             ELSE spread(p, [liquidationPx |-> get_liquidationPx(p).num,
                             traderAddress |-> traders[i].address]).source]]]

\* -------------------------------------------------- get_biggest_positions
\* {**p, 'traderAddress': addr, ...} for every position of every entry of
\* pos_map.items() (Hyperliquid) or of traders (Drift, GMX), in iteration order
annotated_positions(entries) ==
    Concat([i \in 1..Len(entries) |->
              [j \in 1..Len(entries[i].positions) |->
                 spread(entries[i].positions[j],
                        [traderAddress |-> entries[i].address]).fresh]])

\* all_pos[:n] with the sort left out
get_biggest_positions_unsorted(entries, n) ==
    Take(annotated_positions(entries), n)

\* all_pos.sort(key=lambda x: x.get('positionValue', 0), reverse=True)
\* return all_pos[:n]
get_biggest_positions(entries, n) ==
    LET all_pos == annotated_positions(entries)
        keys    == [i \in 1..Len(all_pos) |-> Get(all_pos[i], "positionValue", 0)]
    IN  Take(SortDesc(all_pos, keys), n)

\* extract_biggest_positions of fetch_data.py: pos.copy() of every position of
\* positions_map.items() (the position holds its traderAddress already),
\* sorted by float(x.get('positionValue', 0)), cut at top_n
extract_biggest_positions(entries, n) ==
    LET all_positions_ == Concat([i \in 1..Len(entries) |-> entries[i].positions])
        keys == [i \in 1..Len(all_positions_) |-> Get(all_positions_[i], "positionValue", 0)]
    IN  Take(SortDesc(all_positions_, keys), n)

\* pos_map (or the trader list) as get_biggest_positions leaves it
entries_after_get_biggest_positions(entries) ==
    [i \in 1..Len(entries) |->
       [entries[i] EXCEPT !.positions =
          [j \in 1..Len(entries[i].positions) |->
             spread(entries[i].positions[j],
                    [traderAddress |-> entries[i].address]).source]]]

\* ---------------------------------------------------------- get_liq_risks
\* risks[:200]
RISK_CAP == 200

\* a / b < c / d for a, c >= 0 and b, d > 0, without multiplying
RECURSIVE frac_less(_, _, _, _)
frac_less(a, b, c, d) ==
    LET qa == a \div b
        qc == c \div d
        ra == a % b
        rc == c % d
    IN  IF b = d THEN a < c
        ELSE IF qa # qc THEN qa < qc
        ELSE IF rc = 0 THEN FALSE
        ELSE IF ra = 0 THEN TRUE
        ELSE frac_less(d, rc, b, ra)

\* liq_risk with the test of the distance left out
liq_risk_any_distance(p, addr, table) ==
    LET raw == get_liquidationPx(p) IN
    IF ~Truthy(raw) \/ FloatRaises(raw) \/ raw.kind = "huge" THEN <<>>
    ELSE IF "coin" \notin DOMAIN p \/ "direction" \notin DOMAIN p THEN <<>>
    ELSE LET curr == current_price(table, p["coin"])
             dist == IF p["direction"] = "Long" THEN curr - raw.num ELSE raw.num - curr
         IN  IF curr <= 0 \/ raw.num <= 0 THEN <<>>
             ELSE <<spread(p, [currentPx |-> curr,
                               liquidationPx |-> raw.num,
                               distancePct |-> [num |-> IF dist < 0 THEN 0 ELSE dist,
                                                den |-> curr],
                               traderAddress |-> addr]).fresh>>

\* One pass of the loop over a trader's positions: the risk record, or
\* nothing (continue; an exception inside the try continues as well).
\* distancePct = num / den * 100 is kept as the fraction num / den.  A
\* liquidation price above 1e12 is further than 50% from any price of the
\* table on the short side and below 0% on the long side.
liq_risk(p, addr, table) ==
    LET raw == get_liquidationPx(p) IN
    IF ~Truthy(raw) THEN <<>>
    ELSE IF FloatRaises(raw) THEN <<>>
    ELSE IF raw.kind = "num" /\ raw.num <= 0 THEN <<>>
    ELSE IF "coin" \notin DOMAIN p THEN <<>>
    ELSE LET curr == current_price(table, p["coin"]) IN
         IF curr <= 0 THEN <<>>
         ELSE IF "direction" \notin DOMAIN p THEN <<>>
         ELSE IF raw.kind = "huge" THEN <<>>
         ELSE LET dist == IF p["direction"] = "Long" THEN curr - raw.num
                          ELSE raw.num - curr
              IN  IF 0 < dist /\ 2 * dist < curr
                  THEN <<spread(p, [currentPx |-> curr,
                                    liquidationPx |-> raw.num,
                                    distancePct |-> [num |-> dist, den |-> curr],
                                    traderAddress |-> addr]).fresh>>
                  ELSE <<>>

\* risks.sort(key=lambda x: x['distancePct']): ascending and stable.  A
\* record comes after the records that are strictly nearer and after the
\* records as near that stood before it.
sort_by_distance(found) ==
    LET n == Len(found)
        less(j, i) == frac_less(found[j]["distancePct"].num, found[j]["distancePct"].den,
                                found[i]["distancePct"].num, found[i]["distancePct"].den)
        place == [i \in 1..n |->
                    1 + Cardinality({j \in 1..n : less(j, i) \/ (j < i /\ ~less(i, j))})]
    \* the places are asked for first so that TLC works them out once
    IN  IF DOMAIN place = {} THEN <<>>
        ELSE [k \in 1..n |-> found[CHOOSE i \in 1..n : place[i] = k]]

\* risks.sort(key=lambda x: x['distancePct']); return risks[:200]
get_liq_risks(pm, table) ==
    LET found == Concat([i \in 1..Len(pm) |->
                   Concat([j \in 1..Len(pm[i].positions) |->
                             liq_risk(pm[i].positions[j], pm[i].address, table)])])
    IN  Take(sort_by_distance(found), RISK_CAP)

\* pos_map as get_liq_risks leaves it
pos_map_after_get_liq_risks(pm, table) ==
    [i \in 1..Len(pm) |->
       [pm[i] EXCEPT !.positions =
          [j \in 1..Len(pm[i].positions) |->
             LET p == pm[i].positions[j] IN
             IF liq_risk(p, pm[i].address, table) = <<>> THEN p
             ELSE spread(p, [traderAddress |-> pm[i].address]).source]]]

\* analyze_liquidation_risk of fetch_data.py, one pass of its loop: the risk
\* record, nothing, or an exception that leaves the function (the except
\* clause takes ValueError and TypeError, not the KeyError of pos['coin']).
\* liq_px > 1e10 is skipped; a plain number of the model is below that.
risk_keys == {"positionValue", "size", "entryPx", "leverage", "traderAddress", "unrealizedPnl"}

analyze_step(pos, table) ==
    LET raw  == get_liquidationPx(pos)
        none == [raised |-> FALSE, out |-> <<>>]
        fail == [raised |-> TRUE, out |-> <<>>]
    IN  IF ~Truthy(raw) THEN none
        ELSE IF FloatRaises(raw) THEN none
        ELSE IF raw.kind = "huge" \/ raw.num <= 0 THEN none
        ELSE IF "coin" \notin DOMAIN pos THEN fail
        ELSE LET curr == current_price(table, pos["coin"]) IN
             IF curr <= 0 THEN none
             ELSE IF "direction" \notin DOMAIN pos THEN fail
             ELSE LET dist == IF pos["direction"] = "Long" THEN curr - raw.num
                              ELSE raw.num - curr
                  IN  IF ~(0 < dist /\ 2 * dist < curr) THEN none
                      ELSE IF ~(risk_keys \subseteq DOMAIN pos) THEN fail
                      ELSE [raised |-> FALSE,
                            out |-> <<[coin |-> pos["coin"],
                                       direction |-> pos["direction"],
                                       positionValue |-> pos["positionValue"],
                                       size |-> pos["size"],
                                       entryPx |-> pos["entryPx"],
                                       currentPx |-> curr,
                                       liquidationPx |-> raw.num,
                                       distancePct |-> [num |-> dist, den |-> curr],
                                       leverage |-> pos["leverage"],
                                       traderAddress |-> pos["traderAddress"],
                                       unrealizedPnl |-> pos["unrealizedPnl"]]>>]

\* analyze_liquidation_risk(positions_map, markets_dict): sorted by
\* distancePct, cut at 200; or the exception of one pass
analyze_liquidation_risk(pm, table) ==
    LET steps == Concat([i \in 1..Len(pm) |->
                   [j \in 1..Len(pm[i].positions) |->
                      analyze_step(pm[i].positions[j], table)]])
        found == Concat([i \in 1..Len(steps) |-> steps[i].out])
    IN  IF \E i \in 1..Len(steps) : steps[i].raised
        THEN [raised |-> TRUE, value |-> <<>>]
        ELSE [raised |-> FALSE, value |-> Take(sort_by_distance(found), RISK_CAP)]

\* ------------------------------------------------------- the normalizers
\* A field of a raw API record as JSON delivers it: kind "none" is null,
\* "empty" the string '', "text" a string float() rejects, "num" a string
\* that spells the number num, "int" the JSON number num, "e6" and "e9" the
\* JSON numbers num * 10^6 and num * 10^9 (Drift's raw precision).
RawInt(n) == [kind |-> "int", num |-> n]
RawE6(n) == [kind |-> "e6", num |-> n]
RawE9(n) == [kind |-> "e9", num |-> n]

\* a raw position object that is not a dictionary
NonDict == [nondict |-> TRUE]

IsDict(rec) == "nondict" \notin DOMAIN rec

\* abs() left out: the number with its sign
Signed(n) == n

Abs(n) == IF n < 0 THEN -n ELSE n

\* Python truthiness: None, '' and the number 0 are falsy, every other
\* string ('0' included) is truthy
Falsy(v) == \/ v.kind \in {"none", "empty"}
            \/ v.kind \in {"int", "e6", "e9"} /\ v.num = 0

\* float(v) raises TypeError on None and ValueError on '' and on text
float_raises(v) == v.kind \in {"none", "empty", "text"}

\* pos.get(k1) or pos.get(k2, 0)
get_or(pos, k1, k2) ==
    IF k1 \in DOMAIN pos /\ ~Falsy(pos[k1]) THEN pos[k1]
    ELSE Get(pos, k2, RawInt(0))

\* safe_float(val, default=0): the default for None, '' and for what float()
\* rejects
safe_float(v) == IF float_raises(v) THEN RawInt(0) ELSE v

\* if abs(x) > 1e12: x = x / 1e9.  A plain number of the model is below 1e12;
\* the numbers in raw precision handed to the normalizers are above the
\* thresholds, so that what is stored is a plain number again.
scale_e9(v) == IF v.kind = "e9" /\ Abs(v.num) > 1000 THEN v.num
               ELSE IF v.kind = "e6" /\ Abs(v.num) > 1000000 THEN v.num \div 1000
               ELSE v.num

\* if x > 1e10: x = x / 1e6 (entry and liquidation price), on the signed value
scale_e6(v) == IF v.kind = "e6" /\ v.num > 10000 THEN v.num
               ELSE IF v.kind = "e9" /\ v.num > 10 THEN v.num * 1000
               ELSE v.num

\* if abs(x) > 1e10: x = x / 1e6 (quote amount, unrealized PnL)
scale_abs_e6(v) == IF v.kind = "e6" /\ Abs(v.num) > 10000 THEN v.num
                   ELSE IF v.kind = "e9" /\ Abs(v.num) > 10 THEN v.num * 1000
                   ELSE v.num

\* One pass of the loop of fetch_positions (fetchers/fetch_hyperliquid.py)
\* over data['assetPositions']: an exception, no position (szi == 0), or
\* the position appended
fetch_positions_step(p) ==
    LET none == [raised |-> FALSE, out |-> <<>>]
        fail == [raised |-> TRUE, out |-> <<>>]
        szi  == Get(p, "szi", RawInt(0))
        lev  == Get(p, "leverage", RawInt(0))
        val  == Get(p, "positionValue", RawInt(0))
        upnl == Get(p, "unrealizedPnl", RawInt(0))
    IN  IF ~IsDict(p) THEN fail
        ELSE IF float_raises(szi) THEN fail
        ELSE IF szi.num = 0 THEN none
        ELSE IF ~Falsy(lev) /\ float_raises(lev) THEN fail
        ELSE IF float_raises(val) \/ float_raises(upnl) THEN fail
        ELSE [raised |-> FALSE,
              out |-> <<[coin |-> Get(p, "coin", ""),
                         direction |-> IF szi.num > 0 THEN "Long" ELSE "Short",
                         size |-> Abs(szi.num),
                         entryPx |-> Get(p, "entryPx", LiqNum(0)),
                         leverage |-> IF Falsy(lev) THEN 0 ELSE lev.num,
                         positionValue |-> val.num,
                         unrealizedPnl |-> upnl.num,
                         liquidationPx |-> Get(p, "liquidationPx", LiqEmpty)]>>]

\* One pass of the loop of fetch_positions (fetch_data.py): the empty
\* position object is passed over, leverage and unrealizedPnl are stored as
\* delivered
fetch_data_positions_step(p, address) ==
    LET none == [raised |-> FALSE, out |-> <<>>]
        fail == [raised |-> TRUE, out |-> <<>>]
        szi  == Get(p, "szi", RawInt(0))
        val  == Get(p, "positionValue", RawInt(0))
    IN  IF ~IsDict(p) THEN fail
        ELSE IF DOMAIN p = {} THEN none
        ELSE IF float_raises(szi) THEN fail
        ELSE IF szi.num = 0 THEN none
        ELSE IF float_raises(val) THEN fail
        ELSE [raised |-> FALSE,
              out |-> <<[coin |-> Get(p, "coin", ""),
                         direction |-> IF szi.num > 0 THEN "Long" ELSE "Short",
                         size |-> Abs(szi.num),
                         entryPx |-> Get(p, "entryPx", LiqNum(0)),
                         leverage |-> Get(p, "leverage", RawInt(0)),
                         positionValue |-> val.num,
                         unrealizedPnl |-> Get(p, "unrealizedPnl", LiqNum(0)),
                         liquidationPx |-> Get(p, "liquidationPx", LiqEmpty),
                         traderAddress |-> address]>>]

\* if '-PERP' in str(coin): coin = coin.replace('-PERP', '')
strip_perp(coin) ==
    CASE coin = "SOL-PERP" -> "SOL"
      [] coin = "BTC-PERP" -> "BTC"
      [] OTHER -> coin

\* One pass of the loop of fetch_user_positions (fetch_drift.py) over
\* perp_positions: what is not a dictionary and what has the amount 0 is
\* passed over; safe_float turns every unreadable field into 0
fetch_user_positions_step(pos) ==
    LET none == [raised |-> FALSE, out |-> <<>>]
        base_amount == scale_e9(safe_float(get_or(pos, "baseAssetAmount", "szi")))
        coin == Get(pos, "coin", Get(pos, "symbol", "MARKET_0"))
        entry_price == scale_e6(safe_float(get_or(pos, "entryPrice", "entryPx")))
        quote_entry == scale_abs_e6(safe_float(
                           get_or(pos, "quoteEntryAmount", "quoteAssetAmount")))
        position_value == IF entry_price > 0 THEN Abs(base_amount * entry_price)
                          ELSE Abs(quote_entry)
        upnl == scale_abs_e6(safe_float(get_or(pos, "unrealizedPnl", "unsettledPnl")))
        lev  == safe_float(Get(pos, "leverage", RawInt(0))).num
        leverage_val == IF lev = 0 /\ position_value > 0 THEN 5 ELSE lev
        liq_price == scale_e6(safe_float(get_or(pos, "liquidationPrice", "liquidationPx")))
    IN  IF ~IsDict(pos) THEN none
        ELSE IF safe_float(get_or(pos, "baseAssetAmount", "szi")).num = 0 THEN none
        ELSE [raised |-> FALSE,
              out |-> <<[coin |-> strip_perp(coin),
                         direction |-> IF base_amount > 0 THEN "Long" ELSE "Short",
                         size |-> Abs(base_amount),
                         entryPx |-> entry_price,
                         leverage |-> leverage_val,
                         positionValue |-> position_value,
                         unrealizedPnl |-> upnl,
                         liquidationPx |-> IF liq_price > 0 THEN LiqNum(liq_price)
                                           ELSE LiqEmpty]>>]

\* The three normalizers
Normalizers == {"fetch_positions", "fetch_data.fetch_positions", "fetch_user_positions"}

normalize_step(fn, rec, address) ==
    CASE fn = "fetch_positions" -> fetch_positions_step(rec)
      [] fn = "fetch_data.fetch_positions" -> fetch_data_positions_step(rec, address)
      [] OTHER -> fetch_user_positions_step(rec)

\* the try around the whole function returns [] on any exception, with the
\* positions appended so far dropped
abort_on_exception(steps) ==
    IF \E i \in 1..Len(steps) : steps[i].raised THEN <<>>
    ELSE Concat([i \in 1..Len(steps) |-> steps[i].out])

\* the normalizer fn on the raw records of one account: the list returned
normalize(fn, records, address) ==
    abort_on_exception([i \in 1..Len(records) |-> normalize_step(fn, records[i], address)])

\* ------------------------------------------------------ trader rankings
\* get_pnl(trader, period): the pnl of the first entry of windowPerformances
\* whose period matches, 0 when there is none
RECURSIVE get_pnl(_, _)
get_pnl(perfs, period) ==
    IF perfs = <<>> THEN 0
    ELSE IF Head(perfs).period = period THEN Head(perfs).pnl
    ELSE get_pnl(Tail(perfs), period)

\* The record process_traders_pnl and process_traders append for each
\* trader, in the order of traders
pnl_records(traders, period) ==
    [i \in 1..Len(traders) |->
       [address |-> traders[i].ethAddress,
        accountValue |-> traders[i].accountValue,
        pnl |-> get_pnl(traders[i].windowPerformances, period)]]

\* The record process_traders_value builds for each trader
value_records(traders) ==
    [i \in 1..Len(traders) |->
       [address |-> traders[i].ethAddress,
        accountValue |-> traders[i].accountValue]]

\* process_traders_pnl(traders, period, n)
process_traders_pnl(traders, period, n) ==
    LET result == pnl_records(traders, period)
    IN  Take(SortDesc(result, [i \in 1..Len(result) |-> result[i].pnl]), n)

\* process_traders_value(traders, n)
process_traders_value(traders, n) ==
    LET result == value_records(traders)
    IN  Take(SortDesc(result, [i \in 1..Len(result) |-> result[i].accountValue]), n)

\* process_traders(traders, period, top_n) of fetch_data.py: a trader whose
\* pnl for the period is 0 is skipped
process_traders(traders, period, n) ==
    LET all == pnl_records(traders, period)
        NonZero(t) == t.pnl # 0
        processed == SelectSeq(all, NonZero)
    IN  Take(SortDesc(processed, [i \in 1..Len(processed) |-> processed[i].pnl]), n)

\* TOP_N of fetch_gmx.py
GMX_TOP_N == 200

\* The end of GMX build_trader_list:
\* traders.sort(key=lambda x: x['accountValue'], reverse=True)
\* return traders[:TOP_N]
rank_trader_list(traders) ==
    Take(SortDesc(traders, [i \in 1..Len(traders) |-> traders[i].accountValue]),
         GMX_TOP_N)

\* ------------------------------------------------------------------ main
\* The two programs that fetch Hyperliquid, named by their fetch_positions
Mains == {"fetch_positions", "fetch_data.fetch_positions"}

\* pos_map.get(addr, [])
pos_map_get(pm, addr) ==
    IF \E i \in 1..Len(pm) : pm[i].address = addr
    THEN pm[CHOOSE i \in 1..Len(pm) : pm[i].address = addr].positions
    ELSE <<>>

\* t['positions'] = ... with the account value written over as well
attach_and_revalue(t, pm) ==
    [k \in DOMAIN t \cup {"positions"} |->
       IF k = "positions" THEN pos_map_get(pm, t.address)
       ELSE IF k = "accountValue" THEN 0
       ELSE t[k]]

\* t['positions'] = pos_map.get(t['address'], []): the key is written into
\* the record the ranking step returned
attach(t, pm) ==
    [k \in DOMAIN t \cup {"positions"} |->
       IF k = "positions" THEN pos_map_get(pm, t.address) ELSE t[k]]

\* daily, weekly, by_value of fetch_hyperliquid.py; daily_top, weekly_top of
\* fetch_data.py
rank_step(main, traders, n) ==
    IF main = "fetch_positions"
    THEN [c \in {"daily", "weekly", "by_value"} |->
            CASE c = "daily" -> process_traders_pnl(traders, "day", n)
              [] c = "weekly" -> process_traders_pnl(traders, "week", n)
              [] OTHER -> process_traders_value(traders, n)]
    ELSE [c \in {"daily", "weekly"} |->
            IF c = "daily" THEN process_traders(traders, "day", n)
            ELSE process_traders(traders, "week", n)]

\* all_addr / all_addresses: the addresses of the ranked records, and in
\* fetch_data.py those of the first n traders by account value as well
main_addresses(main, traders, records, n) ==
    LET ranked_ == UNION {{records[c][i].address : i \in 1..Len(records[c])} :
                           c \in DOMAIN records}
        top     == process_traders_value(traders, n)
    IN  IF main = "fetch_positions" THEN ranked_
        ELSE ranked_ \cup {top[i].address : i \in 1..Len(top)}

\* for t in daily: t['positions'] = ...; likewise for every list of records
attach_step(records, pm) ==
    [c \in DOMAIN records |->
       [i \in 1..Len(records[c]) |-> attach(records[c][i], pm)]]

\* The 'positions' of an attached record is the list object pos_map holds:
\* what a later call leaves in pos_map is what the record shows
relink(records, pm) ==
    IF DOMAIN records = {} THEN records
    ELSE [c \in DOMAIN records |->
            [i \in 1..Len(records[c]) |->
               IF "positions" \in DOMAIN records[c][i]
               THEN [records[c][i] EXCEPT !.positions = pos_map_get(pm, records[c][i].address)]
               ELSE records[c][i]]]

\* ---------------------------------------------------- fetch_all_positions
\* pos_map[addr] = value appended whether or not the key is there
dict_append(d, addr, value) == Append(d, [address |-> addr, positions |-> value])

\* pos_map[addr] = value on a dict kept in insertion order: a key that is
\* there keeps its place and takes the value, a new key goes to the end
dict_set(d, addr, value) ==
    IF \E i \in 1..Len(d) : d[i].address = addr
    THEN [i \in 1..Len(d) |-> IF d[i].address = addr
                              THEN [d[i] EXCEPT !.positions = value] ELSE d[i]]
    ELSE Append(d, [address |-> addr, positions |-> value])

\* try: pos_map[addr] = f.result()  except: pos_map[addr] = []
collect(d, addr, outcome) ==
    dict_set(d, addr, IF outcome.raised THEN <<>> ELSE outcome.value)

\* -------------------------------------------------------- get_market_data
\* MAJOR_MARKETS of fetch_drift.py, its head
MAJOR_MARKETS == <<"SOL", "BTC", "ETH", "JUP">>

\* if len(prices) < 3
ENOUGH_PRICES == 3

\* a market record whose 'symbol' is null: .replace raises AttributeError
NullSymbol == [symbol_null |-> TRUE]

\* m.get('symbol', '').replace('-PERP', '') (and .replace('1M', ''))
market_symbol(symbol) ==
    CASE symbol = "SOL-PERP" -> "SOL"
      [] symbol = "BTC-PERP" -> "BTC"
      [] symbol = "ETH-PERP" -> "ETH"
      [] symbol = "JUP-PERP" -> "JUP"
      [] symbol = "-PERP" -> ""
      [] OTHER -> symbol

\* m.get(k1) or m.get(k2) or ...: the first truthy value, else the last
RECURSIVE first_truthy(_, _)
first_truthy(m, keys) ==
    IF Len(keys) = 1 THEN Get(m, keys[1], LiqNone)
    ELSE IF ~Falsy(Get(m, Head(keys), LiqNone)) THEN m[Head(keys)]
    ELSE first_truthy(m, Tail(keys))

\* len(prices)
priced(prices_) == Len(prices_)

\* symbol in prices and prices[symbol].get('price', 0) > 0
has_price(prices_, symbol) ==
    \E i \in 1..Len(prices_) : prices_[i].symbol = symbol /\ prices_[i].price > 0

\* prices[symbol] = {'price': price, ...} whatever the price is
store_any(prices_, symbol, price, source) ==
    IF \E i \in 1..Len(prices_) : prices_[i].symbol = symbol
    THEN [i \in 1..Len(prices_) |->
            IF prices_[i].symbol = symbol
            THEN [symbol |-> symbol, price |-> price, source |-> source]
            ELSE prices_[i]]
    ELSE Append(prices_, [symbol |-> symbol, price |-> price, source |-> source])

\* if symbol and price > 0: prices[symbol] = {'price': price, ...}
store(prices_, symbol, price, source) ==
    IF symbol # "" /\ price > 0 THEN store_any(prices_, symbol, price, source)
    ELSE prices_

\* The loop over the market records of an answer: `checked` says whether the
\* loop skips what is no dict (/contracts) or not (/perpMarkets, where
\* m.get raises AttributeError); a null symbol raises in both
RECURSIVE market_loop(_, _, _, _, _)
market_loop(st, ms, keys, checked, source) ==
    IF ms = <<>> \/ st.raised THEN st
    ELSE LET m == Head(ms) IN
         IF ~IsDict(m)
         THEN IF checked THEN market_loop(st, Tail(ms), keys, checked, source)
              ELSE [st EXCEPT !.raised = TRUE]
         ELSE IF "symbol_null" \in DOMAIN m THEN [st EXCEPT !.raised = TRUE]
         ELSE LET symbol == market_symbol(Get(m, "symbol", ""))
                  price  == scale_e6(safe_float(first_truthy(m, keys)))
              IN  market_loop([st EXCEPT !.prices = store(@, symbol, price, source)],
                              Tail(ms), keys, checked, source)

\* the body of a try: block on an answer of the Drift data API
drift_source(prices_, answer, source) ==
    LET st == [raised |-> FALSE, prices |-> prices_] IN
    CASE answer.kind = "error" -> [st EXCEPT !.raised = TRUE]
      [] answer.kind = "status" -> st
      [] answer.kind = "list" ->
           market_loop(st, answer.markets,
                       IF source = "contracts"
                       THEN <<"oraclePrice", "markPrice", "lastPrice">>
                       ELSE <<"oraclePrice", "price">>,
                       source = "contracts", source)
      [] OTHER ->
           IF source = "contracts"
           THEN market_loop(st, answer.markets, <<"oraclePrice", "price">>, TRUE, source)
           ELSE st

\* no except clause: the exception leaves the function
except_nothing(st) == st

\* except Exception as e: print(...); what was stored before stays
except_exception(st) == [st EXCEPT !.raised = FALSE]

\* One pass of the loop over MAJOR_MARKETS[:10]: a symbol that has a price
\* is passed over without a request
binance_step(st, symbol, answer) ==
    IF has_price(st.prices, symbol) THEN st
    ELSE LET asked == [st EXCEPT !.requests = Append(@, "binance:" \o symbol)]
             tried == CASE answer.kind = "error" -> [asked EXCEPT !.raised = TRUE]
                        [] answer.kind = "status" -> asked
                        [] OTHER ->
                             [asked EXCEPT !.prices =
                                 IF safe_float(answer.lastPrice).num > 0
                                 THEN store_any(@, symbol, safe_float(answer.lastPrice).num,
                                                "binance")
                                 ELSE @]
         IN  except_exception(tried)

RECURSIVE binance_loop(_, _, _)
binance_loop(st, symbols, answers) ==
    IF symbols = <<>> \/ st.raised THEN st
    ELSE binance_loop(binance_step(st, Head(symbols), answers[Head(symbols)]),
                      Tail(symbols), answers)

\* -------------------------------------------------------------- quotients
\* A quotient of two numbers is kept as the fraction num / den.
Frac(n, d) == [num |-> n, den |-> d]

\* a / b: Python raises ZeroDivisionError when b is 0
divide(a, b) ==
    IF b = 0 THEN [raised |-> TRUE, value |-> Frac(0, 1)]
    ELSE [raised |-> FALSE, value |-> Frac(a, b)]

\* the condition left out: the division is always executed
change24h_unguarded(mark, prev) == divide((mark - prev) * 100, prev)

\* chg = ((mark - prev) / prev * 100) if prev > 0 else 0
\* (process_markets; process_markets_data of fetch_data.py likewise)
change24h(mark, prev) ==
    IF prev > 0 THEN divide((mark - prev) * 100, prev)
    ELSE [raised |-> FALSE, value |-> Frac(0, 1)]

\* Step 4 of Drift's main: the trader record built from a maker t and its
\* fetched positions
drift_trader(t, positions) ==
    LET total_value == SumSeq([i \in 1..Len(positions) |-> Get(positions[i], "positionValue", 0)])
        total_pnl   == SumSeq([i \in 1..Len(positions) |-> Get(positions[i], "unrealizedPnl", 0)])
        roi         == IF total_value > 0 THEN divide(total_pnl, total_value)
                       ELSE [raised |-> FALSE, value |-> Frac(0, 1)]
    IN  [raised |-> roi.raised,
         value  |-> [address |-> t.address,
                     accountValue |-> IF total_value > 0 THEN total_value ELSE t.totalSize * 10,
                     pnl |-> total_pnl,
                     roi |-> roi.value,
                     volume |-> t.totalSize,
                     positions |-> positions]]

\* round(x, 2) of the non-negative number n / d in thousandths: the nearest
\* multiple of 10, a tie going to the even hundredth
RoundFrac2(n, d) ==
    LET q == n \div (10 * d)
        r == n - q * 10 * d
    IN  IF 2 * r < 10 * d THEN q * 10
        ELSE IF 2 * r > 10 * d THEN (q + 1) * 10
        ELSE IF q % 2 = 0 THEN q * 10 ELSE (q + 1) * 10

\* The position GMX build_trader_list builds of a raw action pos_raw of the
\* market `symbol`, with price_lookup.get(symbol, 0) = lookup.  USD amounts
\* are whole numbers, prices are in thousandths.
gmx_position(pos_raw, symbol, lookup) ==
    LET size_usd   == IF pos_raw.sizeUsd # 0 THEN pos_raw.sizeUsd ELSE pos_raw.sizeDelta
        price      == IF pos_raw.price # 0 THEN pos_raw.price ELSE lookup
        collateral == pos_raw.collateral
        leverage   == IF collateral > 0 THEN divide(size_usd, collateral)
                      ELSE [raised |-> FALSE, value |-> Frac(10, 1)]
        lev        == leverage.value
        estimate   == price > 0 /\ lev.num > 0
        liq_pct    == IF estimate THEN divide(9 * lev.den, 10 * lev.num)
                      ELSE [raised |-> FALSE, value |-> Frac(0, 1)]
        \* price * (1 - liq_pct) or price * (1 + liq_pct)
        liq_px     == IF ~estimate THEN Frac(0, 1)
                      ELSE IF pos_raw.isLong
                      THEN Frac(price * (10 * lev.num - 9 * lev.den), 10 * lev.num)
                      ELSE Frac(price * (10 * lev.num + 9 * lev.den), 10 * lev.num)
        size       == IF price > 0 THEN divide(size_usd * 1000, price)
                      ELSE [raised |-> FALSE, value |-> Frac(0, 1)]
    IN  [raised |-> leverage.raised \/ liq_pct.raised \/ size.raised,
         value  |-> [coin |-> symbol,
                     direction |-> IF pos_raw.isLong THEN "Long" ELSE "Short",
                     size |-> size.value,
                     positionValue |-> size_usd,
                     entryPx |-> price,
                     leverage |-> IF lev.num >= 100 * lev.den THEN Frac(100, 1) ELSE lev,
                     unrealizedPnl |-> 0,
                     liquidationPx |-> IF liq_px.num > 0
                                       THEN LiqNum(RoundFrac2(liq_px.num, liq_px.den))
                                       ELSE LiqEmpty]]

\* ------------------------------------------------------ build_trader_list
\* str.lower() on the market addresses of the model
lower(address) == CASE address = "0xBTC" -> "0xbtc" [] OTHER -> address

\* market_to_symbol[info['marketAddress'].lower()] = symbol for the markets
\* whose info is a dict with a truthy 'marketAddress'; market_to_symbol.get(
\* market_addr, 'UNKNOWN')
market_to_symbol(markets, market_addr) ==
    LET named == {sym \in DOMAIN markets :
                    /\ IsDict(markets[sym])
                    /\ Get(markets[sym], "marketAddress", "") # ""
                    /\ lower(markets[sym].marketAddress) = market_addr}
    IN  IF named = {} THEN "UNKNOWN" ELSE CHOOSE sym \in named : TRUE

\* price_lookup.get(symbol, 0): info.get('price', 0) of the market, or the
\* fallback price when the market has none above 0
price_lookup(markets, fallback_prices, symbol) ==
    LET listed == symbol \in DOMAIN markets /\ IsDict(markets[symbol])
        own    == IF listed THEN Get(markets[symbol], "price", 0) ELSE 0
    IN  IF symbol \in DOMAIN fallback_prices /\ (~listed \/ own <= 0)
        THEN fallback_prices[symbol]
        ELSE own

\* the test of the loop with the set of seen markets left out
skip_unknown_only(symbol, seen_markets) == symbol = "UNKNOWN"

\* if symbol == 'UNKNOWN' or symbol in seen_markets: continue
skip_action(symbol, seen_markets) == symbol = "UNKNOWN" \/ symbol \in seen_markets

\* for pos_raw in raw.get('positions_raw', []): ... positions.append({...})
RECURSIVE positions_loop(_, _, _, _)
positions_loop(st, actions, markets, fallback_prices) ==
    IF actions = <<>> \/ st.raised THEN st
    ELSE LET pos_raw == Head(actions)
             symbol  == market_to_symbol(markets, lower(pos_raw.marketAddress))
         IN  IF skip_action(symbol, st.seen_markets)
             THEN positions_loop(st, Tail(actions), markets, fallback_prices)
             ELSE LET built == gmx_position(pos_raw, symbol,
                                            price_lookup(markets, fallback_prices, symbol))
                  IN  positions_loop([raised       |-> built.raised,
                                      positions    |-> Append(st.positions, built.value),
                                      seen_markets |-> st.seen_markets \cup {symbol}],
                                     Tail(actions), markets, fallback_prices)

\* traders.append({...}) for one entry of raw_traders
trader_of(raw, markets, fallback_prices) ==
    LET st == positions_loop([raised |-> FALSE, positions |-> <<>>, seen_markets |-> {}],
                             raw.positions_raw, markets, fallback_prices)
        total_value == IF st.positions # <<>>
                       THEN SumSeq([i \in 1..Len(st.positions) |->
                                      st.positions[i].positionValue])
                       ELSE raw.totalVolume
    IN  [raised |-> st.raised,
         value  |-> [address |-> raw.address, displayName |-> raw.displayName,
                     accountValue |-> total_value, pnl |-> 0, roi |-> 0,
                     volume |-> raw.totalVolume, positions |-> st.positions]]

\* build_trader_list(raw_traders, markets, fallback_prices)
build_trader_list(raw_traders, markets, fallback_prices) ==
    LET built == [i \in 1..Len(raw_traders) |->
                    trader_of(raw_traders[i], markets, fallback_prices)]
    IN  IF \E i \in 1..Len(built) : built[i].raised
        THEN [raised |-> TRUE, value |-> <<>>]
        ELSE [raised |-> FALSE,
              value  |-> rank_trader_list([i \in 1..Len(built) |-> built[i].value])]

\* ------------------------------------------------------------ the inputs
\* markets_dict / prices: BTC at 100000, DOGE at 0.21, ZED listed with the
\* price 0; XYZ has no entry
PriceTable == [c \in {"BTC", "DOGE", "ZED"} |->
                 CASE c = "BTC" -> 100000000 [] c = "DOGE" -> 210 [] OTHER -> 0]

Pos(coin, direction, size, leverage, positionValue, liq) ==
    [coin |-> coin, direction |-> direction, size |-> size, leverage |-> leverage,
     positionValue |-> positionValue, liquidationPx |-> liq]

\* Positions as the normalizers write them: every key present
WellFormed ==
    { Pos("BTC", "Long", 2, 12, 1000, LiqNum(98000000)),
      Pos("BTC", "Long", 1, 30, 500, LiqNum(97500000)),
      Pos("BTC", "Long", 1, 12, 1000, LiqNum(97900000)),
      Pos("BTC", "Short", 3, 100, 500, LiqNum(40000000)),
      Pos("BTC", "Short", 1, 50, 250, LiqNum(151000000)),
      Pos("BTC", "Long", 1, 12, 1000, LiqEmpty),
      Pos("BTC", "Short", 2, 5, 500, LiqHuge),
      Pos("DOGE", "Short", 5, 50, 500, LiqNum(107)),
      Pos("DOGE", "Long", 1, 30, 0, LiqNum(204)),
      Pos("DOGE", "Short", 4, 12, 1000, LiqNum(209)),
      Pos("DOGE", "Long", 2, 100, 250, LiqText),
      Pos("XYZ", "Long", 1, 12, 1000, LiqNum(204)),
      Pos("ZED", "Short", 1, 30, 500, LiqNum(204)),
      Pos("ZED", "Long", 1, 30, 500, LiqNone) }

\* A record with one key missing
Without(p, key) == [k \in DOMAIN p \ {key} |-> p[k]]

\* Records that lack a key, next to complete ones
RawRecords ==
    { Pos("BTC", "Long", 2, 12, 1000, LiqNum(98000000)),
      Without(Pos("BTC", "Long", 1, 30, 500, LiqNum(97500000)), "leverage"),
      Without(Pos("BTC", "Short", 3, 100, 500, LiqNum(40000000)), "positionValue"),
      Pos("XYZ", "Long", 1, 12, 1000, LiqNum(204)),
      Without(Pos("XYZ", "Short", 1, 12, 500, LiqNum(204)), "leverage"),
      Pos("ZED", "Short", 1, 30, 500, LiqNum(204)),
      Without(Pos("ZED", "Long", 2, 30, 250, LiqNum(204)), "direction"),
      Without(Pos("DOGE", "Long", 1, 30, 500, LiqNum(204)), "coin"),
      Without(Pos("DOGE", "Long", 1, 30, 500, LiqNum(204)), "size"),
      Without(Pos("DOGE", "Short", 4, 12, 1000, LiqNum(209)), "liquidationPx") }

\* Positions of one coin with every kind of liquidation price: two usable
\* ones, and absent, null, '', not a number, 0, negative, above 1e12
LiqKinds ==
    { Pos("BTC", "Long", 2, 12, 1000, LiqNum(98000000)),
      Pos("BTC", "Long", 1, 30, 500, LiqNum(97500000)),
      Without(Pos("BTC", "Short", 1, 12, 300, LiqNone), "liquidationPx"),
      Pos("BTC", "Short", 1, 12, 300, LiqNone),
      Pos("BTC", "Long", 1, 12, 300, LiqEmpty),
      Pos("BTC", "Short", 2, 50, 700, LiqText),
      Pos("BTC", "Long", 1, 100, 200, LiqNum(0)),
      Pos("BTC", "Short", 1, 30, 400, LiqNum(-5000000)),
      Pos("BTC", "Long", 3, 12, 600, LiqHuge) }

\* Positions to rank by positionValue: equal and different values
RankedPositions ==
    { Pos("BTC", "Long", 2, 12, 1000, LiqEmpty),
      Pos("BTC", "Short", 1, 30, 500, LiqEmpty),
      Pos("DOGE", "Long", 1, 30, 500, LiqEmpty),
      Pos("DOGE", "Short", 1, 30, 0, LiqEmpty) }

Row(address, accountValue, perfs) ==
    [ethAddress |-> address, accountValue |-> accountValue, windowPerformances |-> perfs]

Perf(period, pnl) == [period |-> period, pnl |-> pnl]

\* Leaderboard rows: equal and different PnL and account values, a PnL of 0,
\* a negative PnL, a period that is missing
LeaderboardRows ==
    { Row("0xA", 2, <<Perf("day", 5), Perf("week", 1)>>),
      Row("0xB", 1, <<Perf("day", 5), Perf("week", 0)>>),
      Row("0xC", 2, <<Perf("week", 3)>>),
      Row("0xD", 3, <<Perf("day", -1), Perf("week", 3)>>),
      Row("0xE", 1, <<Perf("day", 0), Perf("week", -2)>>) }

SeqsUpTo(U, n) == UNION {[1..k -> U] : k \in 0..n}

\* assetPositions of the Hyperliquid API: the numbers are strings, the
\* leverage value is a JSON number
HyperliquidRaw ==
    { [szi |-> LiqNum(2), coin |-> "BTC", entryPx |-> LiqNum(100),
       leverage |-> RawInt(20), positionValue |-> LiqNum(150),
       liquidationPx |-> LiqNum(90)],
      [szi |-> LiqNum(-3), coin |-> "ETH", entryPx |-> LiqNum(50),
       leverage |-> RawInt(5), positionValue |-> LiqNum(150),
       liquidationPx |-> LiqNone],
      [szi |-> LiqNum(0), coin |-> "SOL", entryPx |-> LiqNum(10),
       leverage |-> RawInt(5), positionValue |-> LiqNum(0)],
      [szi |-> LiqText, coin |-> "SOL", entryPx |-> LiqNum(10),
       leverage |-> RawInt(5), positionValue |-> LiqNum(10)],
      NonDict,
      [szi |-> LiqNum(1), coin |-> "SOL", entryPx |-> LiqNum(10),
       positionValue |-> LiqNum(10), liquidationPx |-> LiqNum(5)],
      [szi |-> LiqNum(4), coin |-> "DOGE"] }

\* perpPositions of the Drift API: plain numbers and numbers in raw
\* precision (an amount above 1e12, a price or quote amount above 1e10)
DriftRaw ==
    { [baseAssetAmount |-> RawInt(2), coin |-> "SOL-PERP", entryPrice |-> RawInt(100),
       leverage |-> RawInt(3), liquidationPrice |-> RawInt(90)],
      [baseAssetAmount |-> RawE9(-2000), coin |-> "SOL", entryPrice |-> RawE6(20000),
       liquidationPrice |-> RawE6(25000)],
      [baseAssetAmount |-> RawInt(0), szi |-> RawInt(-4), coin |-> "BTC",
       quoteEntryAmount |-> RawInt(-300), leverage |-> RawInt(0)],
      [baseAssetAmount |-> LiqText, coin |-> "ETH", entryPrice |-> RawInt(50)],
      NonDict,
      [baseAssetAmount |-> RawInt(1), coin |-> "ETH"],
      [baseAssetAmount |-> RawInt(0), coin |-> "SOL", entryPrice |-> RawInt(100)],
      [baseAssetAmount |-> RawInt(3), coin |-> "BTC", quoteEntryAmount |-> RawE6(-30000)] }

RawRecordsOf(fn) == IF fn = "fetch_user_positions" THEN DriftRaw ELSE HyperliquidRaw

\* pos_map: one entry per fetched address, MaxPositions positions in all
PosMaps(U) ==
    { <<[address |-> "0xA", positions |-> a], [address |-> "0xB", positions |-> b]>> :
        <<a, b>> \in { ab \in SeqsUpTo(U, MaxPositions) \X SeqsUpTo(U, MaxPositions) :
                         Len(ab[1]) + Len(ab[2]) <= MaxPositions } }

\* The leaderboard of a run of main()
MainRows ==
    { Row("0xA", 2, <<Perf("day", 5), Perf("week", 1)>>),
      Row("0xB", 1, <<Perf("day", 5), Perf("week", 0)>>),
      Row("0xC", 3, <<Perf("week", 3)>>) }

\* What clearinghouseState answers for an account: two positions near the
\* price, one position, none, a record that is not a dictionary
MainResponses ==
    { <<[szi |-> LiqNum(2), coin |-> "BTC", entryPx |-> LiqNum(99000000),
         leverage |-> RawInt(20), positionValue |-> LiqNum(1000),
         liquidationPx |-> LiqNum(98000000)],
        [szi |-> LiqNum(1), coin |-> "BTC", entryPx |-> LiqNum(99000000),
         leverage |-> RawInt(30), positionValue |-> LiqNum(500),
         liquidationPx |-> LiqNum(97500000)]>>,
      <<[szi |-> LiqNum(-4), coin |-> "DOGE", entryPx |-> LiqNum(200),
         leverage |-> RawInt(12), positionValue |-> LiqNum(1000),
         liquidationPx |-> LiqNum(215)]>>,
      <<>>,
      <<NonDict>> }

\* the orders a set of addresses can be inserted in
Orders(S) == {o \in [1..Cardinality(S) -> S] : \A i, j \in DOMAIN o : o[i] = o[j] => i = j}

\* Coins with a width of their own, and others
BucketCoins == {"BTC", "ETH", "SOL", "BNB", "DOGE", ""}

\* Prices around every threshold of get_bucket_size, in thousandths
BucketPrices ==
    {0 - 1000, 0, 5, 999, 1000, 1001, 9999, 10000, 99999, 100000, 999999, 1000000,
     9999999, 10000000, 10000001, 100000000}

\* Leverages around every threshold of get_lev_cat
Leverages == {0 - 1, 0, 5, 9, 10, 24, 25, 26, 49, 50, 99, 100, 101, 1000}

\* Market records of /contracts and /perpMarkets: prices in dollars, a
\* price in raw precision (1e6), a price of 0, a negative and a
\* non-numeric price, no symbol, a null symbol, no dict
Market(symbol, key, price) == [k \in {"symbol", key} |-> IF k = "symbol" THEN symbol ELSE price]

ContractMarkets ==
    { Market("SOL-PERP", "oraclePrice", RawInt(150)),
      Market("BTC-PERP", "markPrice", RawE6(100000)),
      Market("ETH-PERP", "lastPrice", RawInt(2000)),
      Market("JUP-PERP", "oraclePrice", RawInt(0)),
      Market("JUP-PERP", "oraclePrice", RawInt(-1)),
      Market("-PERP", "oraclePrice", RawInt(5)),
      NullSymbol,
      NonDict }

PerpMarkets ==
    { Market("SOL-PERP", "oraclePrice", RawInt(160)),
      Market("JUP-PERP", "price", RawInt(1)),
      Market("ETH-PERP", "price", LiqText),
      Market("BTC-PERP", "markPrice", RawInt(99000)),
      NonDict }

DriftAnswers(markets, n) ==
    {[kind |-> "error"], [kind |-> "status"]}
    \cup [kind : {"list", "dict"}, markets : SeqsUpTo(markets, n)]

\* what Binance answers for a symbol
BinanceAnswers ==
    {[kind |-> "error"], [kind |-> "status"]}
    \cup [kind : {"ticker"}, lastPrice : {LiqNum(170), LiqNum(0), LiqNone}]

\* What a fetch of one address comes to: positions, no position, an
\* exception that f.result() raises again
FetchOutcomes ==
    { [raised |-> FALSE, value |-> <<Pos("BTC", "Long", 2, 12, 1000, LiqNum(98000000))>>],
      [raised |-> FALSE, value |-> <<>>],
      [raised |-> TRUE, value |-> <<>>] }

\* Mark price and previous-day price of an asset context, in thousandths
MarkPrices == {0, 90, 100, 250}

\* Raw actions of GMX traders: sizes in USD, prices in thousandths (0.004,
\* 0.01, 100), collateral absent (0), below and above the size
GmxMarkets == {"0xbtc", "0xeth", "0xnone"}

GmxRaw ==
    [marketAddress : GmxMarkets, isLong : BOOLEAN, sizeDelta : {50},
     sizeUsd : {0, 100}, price : {0, 4, 10, 100000}, collateral : {0, 1, 100, 200}]

\* Makers of Drift's order books
DriftMakers == {[address |-> "0xA", totalSize |-> 7], [address |-> "0xB", totalSize |-> 0]}

\* Positions as Drift's fetch_user_positions writes them: a value and an
\* unrealized PnL
DriftPositions ==
    { [coin |-> "SOL", positionValue |-> 200, unrealizedPnl |-> 30],
      [coin |-> "BTC", positionValue |-> 0, unrealizedPnl |-> 0 - 5],
      [coin |-> "ETH", positionValue |-> 100, unrealizedPnl |-> 0 - 40] }

\* Names of the coins of a run with many coins
CoinNames ==
    <<"C01", "C02", "C03", "C04", "C05", "C06", "C07", "C08", "C09", "C10",
      "C11", "C12", "C13", "C14", "C15", "C16", "C17", "C18", "C19", "C20",
      "C21", "C22", "C23", "C24", "C25", "C26", "C27", "C28", "C29", "C30">>

\* The notional value of the position in the i-th coin: all equal, rising,
\* falling, equal in pairs
ValuePatterns == {"equal", "rising", "falling", "pairs"}

\* A position as fetch_positions of fetch_data.py writes it (every key that
\* analyze_liquidation_risk reads); fetch_hyperliquid.py writes the same
\* keys but traderAddress
RiskPos(main, coin, direction, liq) ==
    LET full == [coin |-> coin, direction |-> direction, size |-> 1, leverage |-> 12,
                 positionValue |-> 1000, entryPx |-> LiqNum(100), unrealizedPnl |-> 0,
                 liquidationPx |-> liq, traderAddress |-> "0xA"]
    IN  IF main = "fetch_positions" THEN [k \in DOMAIN full \ {"traderAddress"} |-> full[k]]
        ELSE full

\* Liquidation prices around the price of the table: BTC at 100000 with
\* points 2% away, at the price, beyond it, 50% away and just inside 50%,
\* DOGE at 0.21, ZED priced 0, XYZ not listed, and the prices that are no
\* positive number
RiskPoints ==
    ({"BTC"} \X {"Long", "Short"} \X
        {LiqNum(98000000), LiqNum(100000000), LiqNum(102000000), LiqNum(50000000),
         LiqNum(150000000)})
    \cup {<<"BTC", "Long", LiqNum(50001000)>>, <<"BTC", "Short", LiqNum(149999000)>>,
          <<"DOGE", "Short", LiqNum(215)>>,
          <<"ZED", "Long", LiqNum(204)>>, <<"XYZ", "Short", LiqNum(204)>>,
          <<"BTC", "Long", LiqEmpty>>, <<"BTC", "Short", LiqText>>,
          <<"BTC", "Short", LiqHuge>>, <<"BTC", "Long", LiqNum(0)>>}

RiskPositions(main) == {RiskPos(main, pt[1], pt[2], pt[3]) : pt \in RiskPoints}

\* the distance of the i-th position of a long list, in BTC dollars
risk_pattern(pattern, i) ==
    CASE pattern = "equal" -> 10
      [] pattern = "rising" -> i
      [] pattern = "falling" -> 300 - i
      [] OTHER -> (i + 1) \div 2

\* pos_map of a run with about as many positions at risk as get_liq_risks
\* returns at most: 0xA holds n of them, Longs and Shorts in turn, 0xB a
\* Long whose liquidation price is the current price
ManyRiskMaps(main) ==
    { <<[address |-> "0xA",
         positions |-> [i \in 1..n |->
                          IF i % 2 = 0
                          THEN RiskPos(main, "BTC", "Long",
                                       LiqNum(100000000 - 1000 * risk_pattern(pattern, i)))
                          ELSE RiskPos(main, "BTC", "Short",
                                       LiqNum(100000000 + 1000 * risk_pattern(pattern, i)))]],
        [address |-> "0xB",
         positions |-> <<[RiskPos(main, "BTC", "Long", LiqNum(100000000))
                            EXCEPT !.positionValue = extra]>>]>> :
        <<n, pattern, extra>> \in ((MaxRisks - 2)..MaxRisks) \X ValuePatterns \X {10} }

\* pos_map of a run with few positions of every kind
FewRiskMaps(main) ==
    { <<[address |-> "0xA", positions |-> a], [address |-> "0xB", positions |-> b]>> :
        <<a, b>> \in { ab \in SeqsUpTo(RiskPositions(main), MaxRiskPositions)
                                    \X SeqsUpTo(RiskPositions(main), MaxRiskPositions) :
                         Len(ab[1]) + Len(ab[2]) <= MaxRiskPositions } }

pattern_value(pattern, i) ==
    CASE pattern = "equal" -> 10
      [] pattern = "rising" -> i
      [] pattern = "falling" -> 100 - i
      [] OTHER -> 10 * ((i + 1) \div 2)

\* pos_map of a run with n coins: 0xA holds one position in each coin, 0xB
\* one more position in the third coin
ManyCoinMaps ==
    { <<[address |-> "0xA",
         positions |-> [i \in 1..n |->
                          Pos(CoinNames[i], IF i % 2 = 0 THEN "Long" ELSE "Short",
                              1, 12, pattern_value(pattern, i), LiqEmpty)]],
        [address |-> "0xB",
         positions |-> <<Pos(CoinNames[3], "Long", 1, 12, extra, LiqEmpty)>>]>> :
        <<n, pattern, extra>> \in ((MaxCoins - 2)..MaxCoins) \X ValuePatterns \X {0, 10} }

\* markets and fallback_prices of a GMX run: BTC with an address in mixed
\* case, ETH without a price of its own, SOL without an address
GmxMarketTable ==
    [sym \in {"BTC", "ETH", "SOL"} |->
       CASE sym = "BTC" -> [marketAddress |-> "0xBTC", price |-> 100000]
         [] sym = "ETH" -> [marketAddress |-> "0xeth", price |-> 0]
         [] OTHER -> [marketAddress |-> "", price |-> 5000]]

GmxFallbackPrices == [sym \in {"BTC", "ETH"} |-> IF sym = "BTC" THEN 1000 ELSE 2000]

Action(market, isLong, sizeUsd, price, collateral) ==
    [marketAddress |-> market, isLong |-> isLong, sizeDelta |-> 50, sizeUsd |-> sizeUsd,
     price |-> price, collateral |-> collateral]

\* Actions of one trader: two on BTC (the address in both cases), two on
\* ETH, one on a market that is not listed and one on SOL's empty address
GmxActions ==
    { Action("0xbtc", TRUE, 100, 100000, 10),
      Action("0xBTC", FALSE, 300, 99000, 0),
      Action("0xeth", TRUE, 200, 0, 100),
      Action("0xeth", FALSE, 0, 2100, 25),
      Action("0xnone", TRUE, 400, 5000, 40),
      Action("", FALSE, 500, 5000, 50) }

RawTrader(address, totalVolume, actions) ==
    [address |-> address, displayName |-> "", totalVolume |-> totalVolume,
     positions_raw |-> actions]

\* raw_traders of a run with few traders: 0xA with some actions, 0xB with
\* one action or none
FewTraders ==
    { <<RawTrader("0xA", va, a), RawTrader("0xB", 150, b)>> :
        <<va, a, b>> \in {0, 500} \X SeqsUpTo(GmxActions, MaxActions)
                           \X {<<>>, <<Action("0xbtc", TRUE, 100, 100000, 10)>>,
                                <<Action("0xeth", FALSE, 150, 2100, 25)>>} }

\* raw_traders of a run with about as many traders as build_trader_list
\* returns at most, each with a BTC action of its own size, a second BTC
\* action and an action on a market that is not listed
ManyTraders ==
    { [i \in 1..n |->
         RawTrader("0x" \o ToString(i), 0,
                   <<Action("0xbtc", i % 2 = 0, risk_pattern(pattern, i), 100000, 10),
                     Action("0xBTC", TRUE, 400, 99000, 0),
                     Action("0xnone", TRUE, 400, 5000, 40)>>)] :
        <<n, pattern>> \in ((MaxTraders - 2)..MaxTraders) \X ValuePatterns }

\* The trader lists the analysis runs on.  Hyperliquid ranks the leaderboard
\* three times (by daily PnL, weekly PnL, account value) and cuts each list
\* at TOP_N; Drift and GMX have the one list `traders`.
CohortNames(d) == IF d = "hyperliquid" THEN <<"daily", "weekly", "by_value">>
                  ELSE <<"traders">>

CohortChoices(d) ==
    IF d = "hyperliquid"
    THEN { [c \in {"daily", "weekly", "by_value"} |->
              CASE c = "daily" -> <<"0xA", "0xB">>
                [] c = "weekly" -> <<"0xB", "0xA">>
                [] OTHER -> <<"0xA", "0xB">>],
           [c \in {"daily", "weekly", "by_value"} |->
              CASE c = "daily" -> <<"0xA">>
                [] c = "weekly" -> <<"0xB">>
                [] OTHER -> <<"0xB", "0xA">>] }
    ELSE { [c \in {"traders"} |-> <<"0xA", "0xB">>],
           [c \in {"traders"} |-> <<"0xB", "0xA">>] }

\* ------------------------------------------------------------- the state
VARIABLES
    dex,          \* which fetcher runs
    prices,       \* markets_dict / prices: coin -> current price
    pos_map,      \* address -> positions, in insertion order
    cohorts,      \* cohort name -> the addresses of its trader records
    pc,           \* the stage main() is at
    agg,          \* cohort name -> what aggregate_positions returned
    liq,          \* cohort name -> what build_liq_map returned
    liq_by_coin,  \* the mapping liq_by_coin of the latest build_liq_map call
    biggest,      \* what get_biggest_positions returned
    leaderboard,  \* the leaderboard rows handed to a ranking function
    top_n,        \* the cut n handed to a ranking function
    ranked,       \* what the latest ranking function returned
    risks,        \* what get_liq_risks returned
    normalizer,   \* the normalizer that is handed raw_records
    raw_records,  \* the raw position records of one account
    normalized,   \* what the normalizer returned
    trader_records, \* cohort name -> the trader records main() holds
    written,      \* the trader records main() wrote to the output
    call,         \* a function called on its own: its name and arguments
    returned,     \* what that call returned
    futures,      \* the fetches submitted to the worker pool, in submission order
    market_data   \* get_market_data of Drift: the prices so far, the requests made

vars == <<dex, prices, pos_map, cohorts, pc, agg, liq, liq_by_coin, biggest,
          leaderboard, top_n, ranked, risks, normalizer, raw_records, normalized,
          trader_records, written, call, returned, futures, market_data>>

ranking == <<leaderboard, top_n, ranked>>

norm == <<normalizer, raw_records, normalized>>

mainv == <<trader_records, written>>

NotRanked == [ran |-> FALSE, fn |-> "", key |-> "", n |-> 0, input |-> <<>>, value |-> <<>>]

NotRun == [ran |-> FALSE, raised |-> FALSE, value |-> <<>>]

Ran(r) == [ran |-> TRUE, raised |-> r.raised, value |-> r.value]

\* for t in daily: t['positions'] = pos_map.get(t['address'], []): the trader
\* records of a cohort, each holding its address's list of pos_map
traders_of(pm, cohort) ==
    [i \in 1..Len(cohort) |->
       [address |-> cohort[i], positions |-> pos_map_get(pm, cohort[i])]]

\* The position lists of the trader records are the lists of pos_map: what
\* a call left in the records of `entries` is what pos_map holds afterwards
write_back(pm, entries) ==
    [i \in 1..Len(pm) |->
       IF \E j \in 1..Len(entries) : entries[j].address = pm[i].address
       THEN LET j == CHOOSE j \in 1..Len(entries) : entries[j].address = pm[i].address
            IN  [pm[i] EXCEPT !.positions = entries[j].positions]
       ELSE pm[i]]

\* no normalizer at work
NormIdle ==
    /\ normalizer = ""
    /\ raw_records = <<>>
    /\ normalized = [ran |-> FALSE, value |-> <<>>]

\* no function called on its own
NoCall == [fn |-> ""]

NotReturned == [ran |-> FALSE]

NoMarketData == [prices |-> <<>>, requests |-> <<>>]

CallIdle ==
    /\ call = NoCall
    /\ returned = NotReturned
    /\ futures = <<>>
    /\ market_data = NoMarketData

\* main() not followed from its ranking step
MainIdle ==
    /\ trader_records = <<>>
    /\ written = [ran |-> FALSE, value |-> <<>>]

\* main() after the positions were attached to the trader records, with a
\* pos_map of the set maps
InitOn(maps) ==
    /\ dex \in DEXES
    /\ prices = PriceTable
    /\ pos_map \in maps
    /\ cohorts \in CohortChoices(dex)
    /\ pc = "aggregate"
    /\ agg = [c \in DOMAIN cohorts |-> NotRun]
    /\ liq = [c \in DOMAIN cohorts |-> NotRun]
    /\ liq_by_coin = <<>>
    /\ biggest = [ran |-> FALSE, value |-> <<>>]
    /\ leaderboard = <<>>
    /\ top_n = TOP_N
    /\ ranked = NotRanked
    /\ risks = [ran |-> FALSE, value |-> <<>>]
    /\ NormIdle
    /\ MainIdle
    /\ CallIdle

InitWith(U) == InitOn(PosMaps(U))

\* A run on positions as the normalizers write them
Init == InitWith(WellFormed)

\* A run on positions with every kind of liquidation price
InitLiqKinds == InitWith(LiqKinds)

\* A run with about as many coins as aggregate_positions returns at most
InitCap == InitOn(ManyCoinMaps)

\* A run on records that may lack a key
InitRaw == InitWith(RawRecords)

\* main() of fetch_hyperliquid.py before liq_risks = get_liq_risks(...), and
\* main() of fetch_data.py before analyze_liquidation_risk(...)
InitRisk ==
    /\ dex = "hyperliquid"
    /\ prices = PriceTable
    /\ normalizer \in Mains
    /\ pos_map \in FewRiskMaps(normalizer) \cup ManyRiskMaps(normalizer)
    /\ cohorts = [c \in {"daily", "weekly", "by_value"} |-> <<>>]
    /\ pc = IF normalizer = "fetch_positions" THEN "done" ELSE "analyze_risk"
    /\ agg = [c \in DOMAIN cohorts |-> NotRun]
    /\ liq = [c \in DOMAIN cohorts |-> NotRun]
    /\ liq_by_coin = <<>>
    /\ biggest = [ran |-> FALSE, value |-> <<>>]
    /\ leaderboard = <<>>
    /\ top_n = TOP_N
    /\ ranked = NotRanked
    /\ risks = [ran |-> FALSE, value |-> <<>>]
    /\ raw_records = <<>>
    /\ normalized = [ran |-> FALSE, value |-> <<>>]
    /\ MainIdle
    /\ CallIdle

\* A ranking function called on a leaderboard, or on the positions of
\* pos_map, with a cut n
InitRank ==
    /\ dex = "hyperliquid"
    /\ prices = PriceTable
    /\ \/ /\ leaderboard \in SeqsUpTo(LeaderboardRows, MaxRanked)
          /\ pos_map = <<>>
       \/ /\ leaderboard = <<>>
          /\ pos_map \in PosMaps(RankedPositions)
    /\ top_n \in 0..MaxRanked
    /\ cohorts = [c \in {"daily", "weekly", "by_value"} |-> <<>>]
    /\ pc = "rank"
    /\ agg = [c \in DOMAIN cohorts |-> NotRun]
    /\ liq = [c \in DOMAIN cohorts |-> NotRun]
    /\ liq_by_coin = <<>>
    /\ biggest = [ran |-> FALSE, value |-> <<>>]
    /\ ranked = NotRanked
    /\ risks = [ran |-> FALSE, value |-> <<>>]
    /\ NormIdle
    /\ MainIdle
    /\ CallIdle

\* A normalizer called on the raw records of the account 0xA
InitNorm ==
    /\ dex = "hyperliquid"
    /\ prices = PriceTable
    /\ pos_map = <<>>
    /\ cohorts = [c \in {"daily", "weekly", "by_value"} |-> <<>>]
    /\ pc = "normalize"
    /\ agg = [c \in DOMAIN cohorts |-> NotRun]
    /\ liq = [c \in DOMAIN cohorts |-> NotRun]
    /\ liq_by_coin = <<>>
    /\ biggest = [ran |-> FALSE, value |-> <<>>]
    /\ leaderboard = <<>>
    /\ top_n = TOP_N
    /\ ranked = NotRanked
    /\ risks = [ran |-> FALSE, value |-> <<>>]
    /\ normalizer \in Normalizers
    /\ raw_records \in SeqsUpTo(RawRecordsOf(normalizer), MaxRaw)
    /\ normalized = [ran |-> FALSE, value |-> <<>>]
    /\ MainIdle
    /\ CallIdle

\* The next cohort main() has not yet passed to a function, in main's order
NextCohort(done) ==
    LET names == CohortNames(dex)
        i == CHOOSE i \in 1..Len(names) :
               /\ ~done[names[i]].ran
               /\ \A j \in 1..(i - 1) : done[names[j]].ran
    IN  names[i]

AllRan(done) == \A c \in DOMAIN done : done[c].ran

\* agg_daily = aggregate_positions(daily), then weekly, then by_value
Aggregate ==
    /\ pc = "aggregate"
    /\ LET c == NextCohort(agg)
           r == aggregate_positions(dex, traders_of(pos_map, cohorts[c]))
       IN  /\ agg' = [agg EXCEPT ![c] = Ran(r)]
           /\ pc' = IF AllRan(agg') THEN "liq_map" ELSE "aggregate"
    /\ UNCHANGED <<market_data, futures, call, returned, dex, prices, pos_map, cohorts, liq, liq_by_coin, biggest, risks, ranking, norm, mainv>>

\* liq_daily = build_liq_map(daily, markets_dict), then weekly, then by_value;
\* a cohort that was mapped may be mapped again
BuildLiqMap(c) ==
    /\ pc = "liq_map"
    /\ \/ liq[c].ran
       \/ ~AllRan(liq) /\ c = NextCohort(liq)
    /\ LET traders == traders_of(pos_map, cohorts[c])
           r == build_liq_map(dex, traders, prices, liq_by_coin)
       IN  /\ liq' = [liq EXCEPT ![c] = Ran(r)]
           /\ liq_by_coin' = r.liq_by_coin
           /\ pos_map' = write_back(pos_map, traders_after_build_liq_map(traders))
    /\ trader_records' = relink(trader_records, pos_map')
    /\ UNCHANGED <<market_data, futures, call, returned, dex, prices, cohorts, pc, agg, biggest, risks, ranking, norm, written>>

\* biggest = get_biggest_positions(pos_map, ...) (Hyperliquid),
\* get_biggest_positions(traders) (Drift, GMX)
Biggest ==
    /\ pc = "liq_map"
    /\ AllRan(liq)
    /\ LET entries == IF dex = "hyperliquid" THEN pos_map
                      ELSE traders_of(pos_map, cohorts["traders"])
       IN  /\ biggest' = [ran |-> TRUE, value |-> get_biggest_positions(entries, top_n)]
           /\ pos_map' = write_back(pos_map, entries_after_get_biggest_positions(entries))
    /\ trader_records' = relink(trader_records, pos_map')
    /\ pc' = "done"
    /\ UNCHANGED <<market_data, futures, call, returned, dex, prices, cohorts, agg, liq, liq_by_coin, risks, ranking, norm, written>>

\* liq_risks = get_liq_risks(pos_map, markets_dict) (Hyperliquid)
LiqRisks ==
    /\ pc = "done"
    /\ dex = "hyperliquid"
    /\ ~risks.ran
    /\ risks' = [ran |-> TRUE, value |-> get_liq_risks(pos_map, prices)]
    /\ pos_map' = pos_map_after_get_liq_risks(pos_map, prices)
    /\ trader_records' = relink(trader_records, pos_map')
    /\ UNCHANGED <<market_data, futures, call, returned, dex, prices, cohorts, pc, agg, liq, liq_by_coin, biggest, ranking, norm, written>>

Next ==
    \/ Aggregate
    \/ \E c \in DOMAIN cohorts : BuildLiqMap(c)
    \/ Biggest
    \/ LiqRisks

Spec == Init /\ [][Next]_vars

SpecRaw == InitRaw /\ [][Next]_vars

SpecCap == InitCap /\ [][Next]_vars

SpecLiqKinds == InitLiqKinds /\ [][Next]_vars

\* A ranking function returned value for the entities input (in iteration
\* order, as the records the function builds of them), key and cut n
Ranked(fn, key, n, input, value) ==
    /\ pc = "rank"
    /\ ranked' = [ran |-> TRUE, fn |-> fn, key |-> key, n |-> n,
                  input |-> input, value |-> value]
    /\ UNCHANGED <<market_data, futures, call, returned, dex, prices, pos_map, cohorts, pc, agg, liq, liq_by_coin, biggest,
                   leaderboard, top_n, risks, norm, mainv>>

\* daily = process_traders_pnl(traders, 'day'), weekly = ...(traders, 'week')
ProcessTradersPnl(period) ==
    Ranked("process_traders_pnl", "pnl", top_n, pnl_records(leaderboard, period),
           process_traders_pnl(leaderboard, period, top_n))

\* by_value = process_traders_value(traders)
ProcessTradersValue ==
    Ranked("process_traders_value", "accountValue", top_n, value_records(leaderboard),
           process_traders_value(leaderboard, top_n))

\* daily_top = process_traders(traders, 'day', TOP_N_TRADERS) of fetch_data.py
ProcessTraders(period) ==
    Ranked("process_traders", "pnl", top_n, pnl_records(leaderboard, period),
           process_traders(leaderboard, period, top_n))

\* get_biggest_positions(pos_map, trader_info, n)
GetBiggestPositions ==
    Ranked("get_biggest_positions", "positionValue", top_n, annotated_positions(pos_map),
           get_biggest_positions(pos_map, top_n))

\* extract_biggest_positions(positions_map, traders_info, top_n) of fetch_data.py
ExtractBiggestPositions ==
    Ranked("extract_biggest_positions", "positionValue", top_n,
           Concat([i \in 1..Len(pos_map) |-> pos_map[i].positions]),
           extract_biggest_positions(pos_map, top_n))

\* the sort and cut that end GMX build_trader_list, on trader records that
\* carry the rows' account values
BuildTraderListRank ==
    Ranked("build_trader_list", "accountValue", GMX_TOP_N, value_records(leaderboard),
           rank_trader_list(value_records(leaderboard)))

NextRank ==
    \/ \E period \in {"day", "week"} : ProcessTradersPnl(period)
    \/ ProcessTradersValue
    \/ \E period \in {"day", "week"} : ProcessTraders(period)
    \/ GetBiggestPositions
    \/ ExtractBiggestPositions
    \/ BuildTraderListRank

SpecRank == InitRank /\ [][NextRank]_vars

\* positions = fetch_positions(addr) / fetch_user_positions(user_account)
Normalize ==
    /\ pc = "normalize"
    /\ normalized' = [ran |-> TRUE, value |-> normalize(normalizer, raw_records, "0xA")]
    /\ pc' = "normalized"
    /\ UNCHANGED <<market_data, futures, call, returned, dex, prices, pos_map, cohorts, agg, liq, liq_by_coin, biggest,
                   risks, ranking, normalizer, raw_records, mainv>>

NextNorm == Normalize

SpecNorm == InitNorm /\ [][NextNorm]_vars

\* main() of fetch_hyperliquid.py or of fetch_data.py, from the leaderboard on
InitMain ==
    /\ dex = "hyperliquid"
    /\ prices = PriceTable
    /\ pos_map = <<>>
    /\ cohorts = [c \in {"daily", "weekly", "by_value"} |-> <<>>]
    /\ pc = "main_rank"
    /\ agg = [c \in DOMAIN cohorts |-> NotRun]
    /\ liq = [c \in DOMAIN cohorts |-> NotRun]
    /\ liq_by_coin = <<>>
    /\ biggest = [ran |-> FALSE, value |-> <<>>]
    /\ leaderboard \in SeqsUpTo(MainRows, MaxRows)
    /\ top_n \in 1..MaxRows
    /\ ranked = NotRanked
    /\ risks = [ran |-> FALSE, value |-> <<>>]
    /\ normalizer \in Mains
    /\ raw_records = <<>>
    /\ normalized = [ran |-> FALSE, value |-> <<>>]
    /\ MainIdle
    /\ CallIdle

\* daily = process_traders_pnl(traders, 'day') ... ; main of
\* fetch_hyperliquid.py returns when the leaderboard is empty
MainRank ==
    /\ pc = "main_rank"
    /\ IF normalizer = "fetch_positions" /\ leaderboard = <<>>
       THEN pc' = "returned" /\ UNCHANGED trader_records
       ELSE /\ trader_records' = rank_step(normalizer, leaderboard, top_n)
            /\ pc' = "main_fetch"
    /\ UNCHANGED <<market_data, futures, call, returned, dex, prices, pos_map, cohorts, agg, liq, liq_by_coin, biggest, risks,
                   ranking, norm, written>>

\* pos_map = fetch_all_positions(list(all_addr)) / fetch_positions_batch:
\* one entry per address, inserted in the order the fetches complete, each
\* the normalized answer of the exchange
MainFetch ==
    /\ pc = "main_fetch"
    /\ LET S == main_addresses(normalizer, leaderboard, trader_records, top_n) IN
       \E o \in Orders(S) : \E answer \in [S -> MainResponses] :
           pos_map' = [i \in 1..Len(o) |->
                         [address |-> o[i],
                          positions |-> normalize(normalizer, answer[o[i]], o[i])]]
    /\ pc' = "main_attach"
    /\ UNCHANGED <<market_data, futures, call, returned, dex, prices, cohorts, agg, liq, liq_by_coin, biggest, risks,
                   ranking, norm, mainv>>

\* for t in daily: t['positions'] = pos_map.get(t['address'], []) ...
MainAttach ==
    /\ pc = "main_attach"
    /\ trader_records' = attach_step(trader_records, pos_map)
    /\ cohorts' = [c \in DOMAIN trader_records |->
                     [i \in 1..Len(trader_records[c]) |-> trader_records[c][i].address]]
    /\ agg' = [c \in DOMAIN trader_records |-> NotRun]
    /\ liq' = [c \in DOMAIN trader_records |-> NotRun]
    /\ pc' = IF normalizer = "fetch_positions" THEN "aggregate" ELSE "extract_biggest"
    /\ UNCHANGED <<market_data, futures, call, returned, dex, prices, pos_map, liq_by_coin, biggest, risks, ranking, norm, written>>

\* biggest_positions = extract_biggest_positions(positions_map, ...)
MainExtractBiggest ==
    /\ pc = "extract_biggest"
    /\ biggest' = [ran |-> TRUE, value |-> extract_biggest_positions(pos_map, top_n)]
    /\ pc' = "analyze_risk"
    /\ UNCHANGED <<market_data, futures, call, returned, dex, prices, pos_map, cohorts, agg, liq, liq_by_coin, risks,
                   ranking, norm, mainv>>

\* liquidation_risks = analyze_liquidation_risk(positions_map, markets_dict)
MainAnalyzeRisk ==
    /\ pc = "analyze_risk"
    /\ LET r == analyze_liquidation_risk(pos_map, prices)
       IN  /\ risks' = [ran |-> TRUE, value |-> r.value]
           /\ pc' = IF r.raised THEN "raised" ELSE "done"
    /\ UNCHANGED <<market_data, futures, call, returned, dex, prices, pos_map, cohorts, agg, liq, liq_by_coin, biggest,
                   ranking, norm, mainv>>

\* json.dump(output, f): 'whaleTracker' holds the lists of trader records
WriteOutput ==
    /\ pc = "done"
    /\ risks.ran
    /\ \A c \in DOMAIN agg : ~agg[c].raised /\ ~liq[c].raised
    /\ written' = [ran |-> TRUE, value |-> trader_records]
    /\ pc' = "written"
    /\ UNCHANGED <<market_data, futures, call, returned, dex, prices, pos_map, cohorts, agg, liq, liq_by_coin, biggest, risks,
                   ranking, norm, trader_records>>

NextMain ==
    \/ MainRank
    \/ MainFetch
    \/ MainAttach
    \/ Aggregate
    \/ \E c \in DOMAIN cohorts : BuildLiqMap(c)
    \/ Biggest
    \/ LiqRisks
    \/ MainExtractBiggest
    \/ MainAnalyzeRisk
    \/ WriteOutput

SpecMain == InitMain /\ [][NextMain]_vars

NextRisk ==
    \/ LiqRisks
    \/ MainAnalyzeRisk

SpecRisk == InitRisk /\ [][NextRisk]_vars

\* The calls of functions that are followed on their own
Calls ==
    [fn : {"change24h"}, mark : MarkPrices, prev : MarkPrices]
    \cup [fn : {"liq_risk"}, position : WellFormed, table : {PriceTable}]
    \cup [fn : {"drift_trader"}, t : DriftMakers, positions : SeqsUpTo(DriftPositions, MaxPositions)]
    \cup [fn : {"gmx_position"}, pos_raw : GmxRaw, lookup : {0, 10}]
    \cup [fn : {"get_bucket_size"}, copy : DEXES, coin : BucketCoins, price : BucketPrices]
    \cup [fn : {"get_lev_cat"}, copy : DEXES, lev : Leverages]

\* A function called on its own
InitCalls ==
    /\ dex \in {"hyperliquid"}
    /\ prices = PriceTable
    /\ pos_map = <<>>
    /\ cohorts = [c \in {"daily", "weekly", "by_value"} |-> <<>>]
    /\ pc = "call"
    /\ agg = [c \in DOMAIN cohorts |-> NotRun]
    /\ liq = [c \in DOMAIN cohorts |-> NotRun]
    /\ liq_by_coin = <<>>
    /\ biggest = [ran |-> FALSE, value |-> <<>>]
    /\ leaderboard = <<>>
    /\ top_n = TOP_N
    /\ ranked = NotRanked
    /\ risks = [ran |-> FALSE, value |-> <<>>]
    /\ NormIdle
    /\ MainIdle
    /\ call \in Calls
    /\ returned = NotReturned
    /\ futures = <<>>
    /\ market_data = NoMarketData

\* the call returns r: [raised, value]
Return(fn, r) ==
    /\ pc = "call"
    /\ call.fn = fn
    /\ returned' = [ran |-> TRUE, raised |-> r.raised, value |-> r.value]
    /\ pc' = "returned"
    /\ UNCHANGED <<market_data, futures, call, dex, prices, pos_map, cohorts, agg, liq, liq_by_coin, biggest,
                   risks, ranking, norm, mainv>>

\* chg = ... in process_markets
Change24h == Return("change24h", change24h(call.mark, call.prev))

\* one pass of get_liq_risks' loop
LiqRisk ==
    Return("liq_risk", [raised |-> FALSE, value |-> liq_risk(call.position, "0xA", call.table)])

\* one pass of the loop of Step 4 of Drift's main
DriftTrader == Return("drift_trader", drift_trader(call.t, call.positions))

\* one pass of the loop over positions_raw in GMX build_trader_list
GmxPosition ==
    Return("gmx_position", gmx_position(call.pos_raw, "BTC", call.lookup))

\* get_bucket_size(coin, price) of the exchange's fetcher
GetBucketSize ==
    Return("get_bucket_size",
           [raised |-> FALSE,
            value |-> CASE call.copy = "hyperliquid" -> get_bucket_size(call.coin, call.price)
                        [] call.copy = "drift" -> drift_get_bucket_size(call.coin, call.price)
                        [] OTHER -> gmx_get_bucket_size(call.coin, call.price)])

\* get_lev_cat(lev) of the exchange's fetcher
GetLevCat ==
    Return("get_lev_cat",
           [raised |-> FALSE,
            value |-> CASE call.copy = "hyperliquid" -> get_lev_cat(call.lev)
                        [] call.copy = "drift" -> drift_get_lev_cat(call.lev)
                        [] OTHER -> gmx_get_lev_cat(call.lev)])

NextCalls ==
    \/ Change24h
    \/ LiqRisk
    \/ DriftTrader
    \/ GmxPosition
    \/ GetBucketSize
    \/ GetLevCat

SpecCalls == InitCalls /\ [][NextCalls]_vars

\* build_trader_list(raw_traders, markets, fallback_prices) of fetch_gmx.py
InitGmx ==
    /\ dex = "gmx"
    /\ prices = PriceTable
    /\ pos_map = <<>>
    /\ cohorts = [c \in {"traders"} |-> <<>>]
    /\ pc = "call"
    /\ agg = [c \in DOMAIN cohorts |-> NotRun]
    /\ liq = [c \in DOMAIN cohorts |-> NotRun]
    /\ liq_by_coin = <<>>
    /\ biggest = [ran |-> FALSE, value |-> <<>>]
    /\ leaderboard = <<>>
    /\ top_n = TOP_N
    /\ ranked = NotRanked
    /\ risks = [ran |-> FALSE, value |-> <<>>]
    /\ NormIdle
    /\ MainIdle
    /\ \E raw_traders \in FewTraders \cup ManyTraders :
          call = [fn |-> "build_trader_list", raw_traders |-> raw_traders,
                  markets |-> GmxMarketTable, fallback_prices |-> GmxFallbackPrices]
    /\ returned = NotReturned
    /\ futures = <<>>
    /\ market_data = NoMarketData

BuildTraderList ==
    Return("build_trader_list",
           build_trader_list(call.raw_traders, call.markets, call.fallback_prices))

NextGmx == BuildTraderList

SpecGmx == InitGmx /\ [][NextGmx]_vars

\* get_market_data() of fetch_drift.py at its first line
InitMarket ==
    /\ dex = "drift"
    /\ prices = PriceTable
    /\ pos_map = <<>>
    /\ cohorts = [c \in {"traders"} |-> <<>>]
    /\ pc = "contracts"
    /\ agg = [c \in DOMAIN cohorts |-> NotRun]
    /\ liq = [c \in DOMAIN cohorts |-> NotRun]
    /\ liq_by_coin = <<>>
    /\ biggest = [ran |-> FALSE, value |-> <<>>]
    /\ leaderboard = <<>>
    /\ top_n = TOP_N
    /\ ranked = NotRanked
    /\ risks = [ran |-> FALSE, value |-> <<>>]
    /\ NormIdle
    /\ MainIdle
    /\ call = [fn |-> "get_market_data"]
    /\ returned = NotReturned
    /\ futures = <<>>
    /\ market_data = NoMarketData

\* what a step of get_market_data leaves: the prices, the requests made,
\* and the place the function is at
MarketStep(st, requests, next) ==
    /\ market_data' = [prices |-> st.prices, requests |-> requests]
    /\ pc' = IF st.raised THEN "raised" ELSE next
    /\ UNCHANGED <<futures, call, returned, dex, prices, pos_map, cohorts, agg, liq, liq_by_coin,
                   biggest, risks, ranking, norm, mainv>>

\* # Try /contracts endpoint
Contracts ==
    /\ pc = "contracts"
    /\ \E answer \in DriftAnswers(ContractMarkets, MaxMarkets) :
          MarketStep(except_exception(drift_source(market_data.prices, answer, "contracts")),
                     Append(market_data.requests, "contracts"), "perpMarkets")

\* # Fallback: try /perpMarkets
PerpMarketsFallback ==
    /\ pc = "perpMarkets"
    /\ IF priced(market_data.prices) < ENOUGH_PRICES
       THEN \E answer \in DriftAnswers(PerpMarkets, MaxMarkets - 1) :
              MarketStep(except_exception(drift_source(market_data.prices, answer, "perpMarkets")),
                         Append(market_data.requests, "perpMarkets"), "binance")
       ELSE MarketStep([raised |-> FALSE, prices |-> market_data.prices],
                       market_data.requests, "binance")

\* # Final fallback: Binance prices for major markets
BinanceFallback ==
    /\ pc = "binance"
    /\ IF priced(market_data.prices) < ENOUGH_PRICES
       THEN \E answers \in [{MAJOR_MARKETS[i] : i \in 1..MaxMajors} -> BinanceAnswers] :
              LET st == binance_loop([raised |-> FALSE, prices |-> market_data.prices,
                                      requests |-> market_data.requests],
                                     Take(MAJOR_MARKETS, MaxMajors), answers)
              IN  MarketStep(st, st.requests, "return")
       ELSE MarketStep([raised |-> FALSE, prices |-> market_data.prices],
                       market_data.requests, "return")

\* return prices
ReturnPrices ==
    /\ pc = "return"
    /\ returned' = [ran |-> TRUE, raised |-> FALSE, value |-> market_data.prices]
    /\ pc' = "returned"
    /\ UNCHANGED <<market_data, futures, call, dex, prices, pos_map, cohorts, agg, liq, liq_by_coin,
                   biggest, risks, ranking, norm, mainv>>

NextMarket ==
    \/ Contracts
    \/ PerpMarketsFallback
    \/ BinanceFallback
    \/ ReturnPrices

SpecMarket == InitMarket /\ [][NextMarket]_vars

\* fetch_all_positions(addresses) (fetch_positions_batch in fetch_data.py)
\* after every address was submitted to the pool: futures = {ex.submit(...)}
InitFetch ==
    /\ dex \in {"hyperliquid", "drift"}
    /\ prices = PriceTable
    /\ pos_map = <<>>
    /\ cohorts = [c \in {"daily", "weekly", "by_value"} |-> <<>>]
    /\ pc = "fetch"
    /\ agg = [c \in DOMAIN cohorts |-> NotRun]
    /\ liq = [c \in DOMAIN cohorts |-> NotRun]
    /\ liq_by_coin = <<>>
    /\ biggest = [ran |-> FALSE, value |-> <<>>]
    /\ leaderboard = <<>>
    /\ top_n = TOP_N
    /\ ranked = NotRanked
    /\ risks = [ran |-> FALSE, value |-> <<>>]
    /\ NormIdle
    /\ MainIdle
    /\ \E addresses \in SeqsUpTo({"0xA", "0xB", "0xC"}, MaxFutures) :
          /\ call = [fn |-> "fetch_all_positions", addresses |-> addresses]
          /\ futures \in [1..Len(addresses) ->
                             [address : {"0xA", "0xB", "0xC"}, state : {"queued"},
                              outcome : FetchOutcomes]]
          /\ \A i \in 1..Len(addresses) : futures[i].address = addresses[i]
    /\ returned = NotReturned
    /\ market_data = NoMarketData

Running == {i \in 1..Len(futures) : futures[i].state = "running"}

\* a thread of the pool takes the oldest submitted fetch that waits
StartFetch(i) ==
    /\ pc = "fetch"
    /\ futures[i].state = "queued"
    /\ \A j \in 1..(i - 1) : futures[j].state # "queued"
    /\ Cardinality(Running) < MaxWorkers
    /\ futures' = [futures EXCEPT ![i].state = "running"]
    /\ UNCHANGED <<market_data, call, returned, dex, prices, pos_map, cohorts, pc, agg, liq, liq_by_coin,
                   biggest, risks, ranking, norm, mainv>>

\* the fetch of a thread comes to its end
FinishFetch(i) ==
    /\ pc = "fetch"
    /\ futures[i].state = "running"
    /\ futures' = [futures EXCEPT ![i].state = "finished"]
    /\ UNCHANGED <<market_data, call, returned, dex, prices, pos_map, cohorts, pc, agg, liq, liq_by_coin,
                   biggest, risks, ranking, norm, mainv>>

\* for f in as_completed(futures): one pass of the loop, on a fetch that
\* has ended
CollectFuture(i) ==
    /\ pc = "fetch"
    /\ futures[i].state = "finished"
    /\ pos_map' = collect(pos_map, futures[i].address, futures[i].outcome)
    /\ futures' = [futures EXCEPT ![i].state = "collected"]
    /\ UNCHANGED <<market_data, call, returned, dex, prices, cohorts, pc, agg, liq, liq_by_coin,
                   biggest, risks, ranking, norm, mainv>>

\* return pos_map
ReturnPosMap ==
    /\ pc = "fetch"
    /\ \A i \in 1..Len(futures) : futures[i].state = "collected"
    /\ returned' = [ran |-> TRUE, raised |-> FALSE, value |-> pos_map]
    /\ pc' = "returned"
    /\ UNCHANGED <<market_data, call, futures, dex, prices, pos_map, cohorts, agg, liq, liq_by_coin,
                   biggest, risks, ranking, norm, mainv>>

NextFetch ==
    \/ \E i \in 1..Len(futures) : StartFetch(i)
    \/ \E i \in 1..Len(futures) : FinishFetch(i)
    \/ \E i \in 1..Len(futures) : CollectFuture(i)
    \/ ReturnPosMap

SpecFetch == InitFetch /\ [][NextFetch]_vars


\* ================================================================ claims
\* What the claims speak of, computed from the inputs alone.
CohortTraders(c) == traders_of(pos_map, cohorts[c])

CohortPositions(c) == all_positions(CohortTraders(c))

\* sum of positionValue over a list of positions
SumValues(ps) == SumSeq([i \in 1..Len(ps) |-> Get(ps[i], "positionValue", 0)])

\* a liquidation price that is defined and in (0, 1e12]
ValidLiq(p) ==
    /\ "liquidationPx" \in DOMAIN p
    /\ p["liquidationPx"].kind = "num"
    /\ p["liquidationPx"].num > 0

\* 0.5 * P <= liq <= 1.5 * P
InBand(x, P) == 2 * x >= P /\ 2 * x <= 3 * P

\* a position of `coin` that carries a valid liquidation price
ValidOf(p, coin) == "coin" \in DOMAIN p /\ p["coin"] = coin /\ ValidLiq(p)

\* ... that moreover lies in the valid range around P
InRangeOf(p, coin, P) == ValidOf(p, coin) /\ InBand(p["liquidationPx"].num, P)

Count(ps, Test(_)) == Cardinality({i \in 1..Len(ps) : Test(ps[i])})

LiqDone(c) == liq[c].ran /\ ~liq[c].raised

AggDone(c) == agg[c].ran /\ ~agg[c].raised

\* the entries of both sides of a coin's map entry
BothSides(e) == e.longLiquidations \o e.shortLiquidations

TierTotal(b) == b["10x"] + b["25x"] + b["50x"] + b["100x"]

\* C1: for every cohort passed to aggregate_positions and every coin of its
\* output, long is the sum of positionValue over the coin's Long positions,
\* short the sum over its other positions, and total = long + short is the
\* sum over all the coin's positions in the cohort.
C1_AggregateSums ==
    \A c \in DOMAIN agg : AggDone(c) =>
        LET ps == CohortPositions(c) IN
        \A i \in 1..Len(agg[c].value) :
            LET rec == agg[c].value[i]
                LongOf(p)  == p["coin"] = rec.coin /\ p["direction"] = "Long"
                OtherOf(p) == p["coin"] = rec.coin /\ p["direction"] # "Long"
                OfCoin(p)  == p["coin"] = rec.coin
            IN  /\ rec.long = SumValues(SelectSeq(ps, LongOf))
                /\ rec.short = SumValues(SelectSeq(ps, OtherOf))
                /\ rec.total = rec.long + rec.short
                /\ rec.total = SumValues(SelectSeq(ps, OfCoin))

\* a coin summed from positions of both sides
C1_Witness ==
    \E c \in DOMAIN agg : /\ AggDone(c)
                          /\ \E i \in 1..Len(agg[c].value) :
                                agg[c].value[i].long > 0 /\ agg[c].value[i].short > 0

\* C2 as stated: every emitted bucket price p of coin c has
\* 0.5 * P_c <= p <= 1.5 * P_c.
C2_PriceInBand ==
    \A c \in DOMAIN liq : LiqDone(c) =>
        \A i \in 1..Len(liq[c].value) :
            LET e == liq[c].value[i] IN
            \A k \in 1..Len(BothSides(e)) :
                InBand(BothSides(e)[k]["price"], current_price(prices, e.coin))

\* C2 as amended: every emitted price p is the floor, to the coin's bucket
\* width w, of a liquidation price liq of that coin and side's cohort with
\* 0.5 * P_c <= liq <= 1.5 * P_c (p <= liq < p + w), so
\* 0.5 * P_c - w < p <= 1.5 * P_c.
C2_PriceIsFloorOfInBand ==
    \A c \in DOMAIN liq : LiqDone(c) =>
        \A i \in 1..Len(liq[c].value) :
            LET e  == liq[c].value[i]
                P  == current_price(prices, e.coin)
                w  == get_bucket_size(e.coin, P)
                ps == CohortPositions(c)
            IN  \A k \in 1..Len(BothSides(e)) :
                    LET price == BothSides(e)[k]["price"] IN
                    /\ 2 * (price + w) > P
                    /\ 2 * price <= 3 * P
                    /\ \E j \in 1..Len(ps) :
                          /\ InRangeOf(ps[j], e.coin, P)
                          /\ price <= ps[j]["liquidationPx"].num
                          /\ ps[j]["liquidationPx"].num < price + w

\* an emitted price below 0.5 * P_c
C2_Witness ==
    \E c \in DOMAIN liq : /\ LiqDone(c)
                          /\ \E i \in 1..Len(liq[c].value) :
                               LET e == liq[c].value[i] IN
                               \E k \in 1..Len(BothSides(e)) :
                                   2 * BothSides(e)[k]["price"] < current_price(prices, e.coin)

\* C3 as stated: every coin of the map has at least two positions whose
\* liquidation price is defined, in (0, 1e12] and inside [0.5 * P, 1.5 * P].
C3_TwoInRange ==
    \A c \in DOMAIN liq : LiqDone(c) =>
        \A i \in 1..Len(liq[c].value) :
            LET e == liq[c].value[i]
                InRange(p) == InRangeOf(p, e.coin, current_price(prices, e.coin))
            IN  Count(CohortPositions(c), InRange) >= 2

\* C3 as amended: every coin of the map has at least two positions whose
\* liquidation price is defined and in (0, 1e12], at least one of them inside
\* [0.5 * P, 1.5 * P]; a coin with fewer than two such positions is omitted
\* from the map, and is still a record of aggregate_positions' output.
C3_TwoValidOneInRange ==
    \A c \in DOMAIN liq : LiqDone(c) =>
        LET ps == CohortPositions(c) IN
        /\ \A i \in 1..Len(liq[c].value) :
              LET e == liq[c].value[i]
                  Valid(p)   == ValidOf(p, e.coin)
                  InRange(p) == InRangeOf(p, e.coin, current_price(prices, e.coin))
              IN  Count(ps, Valid) >= 2 /\ Count(ps, InRange) >= 1
        /\ \A j \in 1..Len(ps) :
              LET coin == ps[j]["coin"]
                  Valid(p) == ValidOf(p, coin)
              IN  Count(ps, Valid) < 2 =>
                    /\ \A i \in 1..Len(liq[c].value) : liq[c].value[i].coin # coin
                    /\ AggDone(c) =>
                          \E i \in 1..Len(agg[c].value) : agg[c].value[i].coin = coin

\* a coin with exactly one valid liquidation point in one cohort: left out
\* of that cohort's map, a record of its aggregation and a position of the
\* biggest positions, while another cohort with two points maps the coin
C3_Witness ==
    \E c \in DOMAIN liq :
        /\ LiqDone(c) /\ AggDone(c) /\ biggest.ran
        /\ \E j \in 1..Len(CohortPositions(c)) :
              LET p == CohortPositions(c)[j]
                  Valid(q) == ValidOf(q, p["coin"])
              IN  /\ Count(CohortPositions(c), Valid) = 1
                  /\ ValidLiq(p)
                  /\ InBand(p["liquidationPx"].num, current_price(prices, p["coin"]))
                  /\ \A i \in 1..Len(liq[c].value) : liq[c].value[i].coin # p["coin"]
                  /\ \E i \in 1..Len(agg[c].value) : agg[c].value[i].coin = p["coin"]
                  /\ \E i \in 1..Len(biggest.value) : biggest.value[i]["coin"] = p["coin"]
                  /\ \E c2 \in DOMAIN liq :
                        /\ LiqDone(c2)
                        /\ \E i \in 1..Len(liq[c2].value) : liq[c2].value[i].coin = p["coin"]


\* the positions of one side: Long, or every other direction
OnSide(p, long) == (p["direction"] = "Long") = long

SideList(e, long) == IF long THEN e.longLiquidations ELSE e.shortLiquidations

SumTierTotals(L) == SumSeq([k \in 1..Len(L) |-> TierTotal(L[k])])

\* C4: a position whose liquidation price is strictly below 0.5 * P or
\* strictly above 1.5 * P adds its positionValue to no tier of any bucket:
\* on each side of a coin's map entry the tier values add up to the
\* positionValue of that side's positions inside [0.5 * P, 1.5 * P] alone.
C4_OutOfRangeAddsNothing ==
    \A c \in DOMAIN liq : LiqDone(c) =>
        \A i \in 1..Len(liq[c].value) : \A long \in BOOLEAN :
            LET e == liq[c].value[i]
                In(p) == /\ InRangeOf(p, e.coin, current_price(prices, e.coin))
                         /\ OnSide(p, long)
            IN  SumTierTotals(SideList(e, long)) = SumValues(SelectSeq(CohortPositions(c), In))

\* a mapped coin one of whose positions, worth something, lies strictly
\* outside the valid range
C4_Witness ==
    \E c \in DOMAIN liq :
        /\ LiqDone(c)
        /\ \E i \in 1..Len(liq[c].value) : \E j \in 1..Len(CohortPositions(c)) :
              LET e == liq[c].value[i]
                  p == CohortPositions(c)[j]
              IN  /\ ValidOf(p, e.coin)
                  /\ ~InBand(p["liquidationPx"].num, current_price(prices, e.coin))
                  /\ p["positionValue"] > 0

BucketEntry(price, t10, t25, t50, t100) ==
    [f \in Tiers \cup {"price"} |->
       CASE f = "price" -> price [] f = "10x" -> t10 [] f = "25x" -> t25
         [] f = "50x" -> t50 [] OTHER -> t100]

\* floor(liq / w) * w
FloorTo(x, w) == (x \div w) * w

\* The general part of C5: on each side of a mapped coin no price occurs
\* twice, every tier value of an entry is the sum of positionValue over that
\* side's in-range positions whose liquidation price floors to the entry's
\* price and whose leverage falls in the tier, and in-range positions worth
\* more than 0 together have their entry.
C5_General ==
    \A c \in DOMAIN liq : LiqDone(c) =>
        \A i \in 1..Len(liq[c].value) : \A long \in BOOLEAN :
            LET e  == liq[c].value[i]
                P  == current_price(prices, e.coin)
                w  == get_bucket_size(e.coin, P)
                L  == SideList(e, long)
                ps == CohortPositions(c)
                In(p) == InRangeOf(p, e.coin, P) /\ OnSide(p, long)
            IN  /\ \A a, b \in 1..Len(L) : L[a]["price"] = L[b]["price"] => a = b
                /\ \A k \in 1..Len(L) : \A t \in Tiers :
                      LET Here(p) == /\ In(p)
                                     /\ FloorTo(p["liquidationPx"].num, w) = L[k]["price"]
                                     /\ get_lev_cat(p["leverage"]) = t
                      IN  L[k][t] = SumValues(SelectSeq(ps, Here))
                /\ \A j \in 1..Len(ps) :
                      In(ps[j]) /\ ps[j]["positionValue"] > 0 =>
                          \E k \in 1..Len(L) :
                              L[k]["price"] = FloorTo(ps[j]["liquidationPx"].num, w)

\* the cohort holds exactly two positions, BTC Longs with the given
\* liquidation prices, values and leverages, in either order
TwoBtcLongs(c, liq1, val1, lev1, liq2, val2, lev2) ==
    LET ps == CohortPositions(c)
        Is(p, l, v, lev) == /\ p["coin"] = "BTC" /\ p["direction"] = "Long"
                            /\ p["liquidationPx"] = LiqNum(l)
                            /\ p["positionValue"] = v /\ p["leverage"] = lev
    IN  /\ Len(ps) = 2
        /\ \/ Is(ps[1], liq1, val1, lev1) /\ Is(ps[2], liq2, val2, lev2)
           \/ Is(ps[2], liq1, val1, lev1) /\ Is(ps[1], liq2, val2, lev2)

\* the map is the one BTC entry with these long buckets and no short bucket
BtcLongMap(c, buckets) ==
    liq[c].value = <<[coin |-> "BTC", currentPrice |-> 100000000,
                      longLiquidations |-> buckets, shortLiquidations |-> <<>>]>>

\* C5 as stated: the general part, and for the price table {BTC: 100000} the
\* Long positions (liq 98000, value 1000, lev 12) and (liq 97500, value 500,
\* lev 30) give a single long bucket at 97000 with 10x=1000, 25x=500.
C5_OneBucketAt97000 ==
    /\ C5_General
    /\ \A c \in DOMAIN liq :
          LiqDone(c) /\ TwoBtcLongs(c, 98000000, 1000, 12, 97500000, 500, 30) =>
              BtcLongMap(c, <<BucketEntry(97000000, 1000, 500, 0, 0)>>)

\* C5 as amended: the general part; the two positions of the example give
\* two long buckets, 97000 with 25x=500 and 98000 with 10x=1000 (98000 is a
\* multiple of the width 1000 and opens its own bucket); with liq 97900 in
\* place of 98000 they give the single bucket 97000 with 10x=1000, 25x=500.
C5_BucketsByFloor ==
    /\ C5_General
    /\ \A c \in DOMAIN liq :
          /\ LiqDone(c) /\ TwoBtcLongs(c, 98000000, 1000, 12, 97500000, 500, 30) =>
                BtcLongMap(c, <<BucketEntry(97000000, 0, 500, 0, 0),
                                BucketEntry(98000000, 1000, 0, 0, 0)>>)
          /\ LiqDone(c) /\ TwoBtcLongs(c, 97900000, 1000, 12, 97500000, 500, 30) =>
                BtcLongMap(c, <<BucketEntry(97000000, 1000, 500, 0, 0)>>)

\* two same-side positions of one bucket and different tiers were mapped
C5_Witness ==
    \E c \in DOMAIN liq :
        /\ LiqDone(c)
        /\ TwoBtcLongs(c, 97900000, 1000, 12, 97500000, 500, 30)
        /\ Len(liq[c].value) = 1
        /\ Len(liq[c].value[1].longLiquidations) = 1

\* C6: no entry of longLiquidations or shortLiquidations has all four tier
\* values equal to 0, positions whose positionValue is 0 included.
C6_NoEmptyBucket ==
    \A c \in DOMAIN liq : LiqDone(c) =>
        \A i \in 1..Len(liq[c].value) :
            \A k \in 1..Len(BothSides(liq[c].value[i])) :
                LET b == BothSides(liq[c].value[i])[k]
                IN  ~(b["10x"] = 0 /\ b["25x"] = 0 /\ b["50x"] = 0 /\ b["100x"] = 0)

\* a mapped coin with an in-range position whose positionValue is 0
C6_Witness ==
    \E c \in DOMAIN liq :
        /\ LiqDone(c)
        /\ \E i \in 1..Len(liq[c].value) : \E j \in 1..Len(CohortPositions(c)) :
              LET e == liq[c].value[i]
                  p == CohortPositions(c)[j]
              IN  /\ InRangeOf(p, e.coin, current_price(prices, e.coin))
                  /\ p["positionValue"] = 0

\* C8: build_liq_map's result depends only on its arguments: once a cohort
\* has been mapped, mapping it again, or mapping another cohort before it is
\* mapped again, leaves the output obtained for it the same.
C8_RerunSameOutput ==
    [][\A c \in DOMAIN liq : liq[c].ran => liq'[c] = liq[c]]_vars

\* every cohort was mapped, two cohorts got different maps, and a cohort
\* other than the last was mapped again after the last one
C8_Witness ==
    /\ dex = "hyperliquid"
    /\ AllRan(liq)
    /\ liq["by_value"].value # <<>>
    /\ liq["daily"].value # liq["by_value"].value
    /\ liq_by_coin # build_liq_map(dex, CohortTraders("by_value"), prices, <<>>).liq_by_coin


\* C7: every ranking function returns at most N entries, and for any two
\* result positions i < j the key of result[i] is >= the key of result[j].
C7_RankedDescendingAtMostN ==
    ranked.ran =>
        /\ Len(ranked.value) <= ranked.n
        /\ \A i, j \in 1..Len(ranked.value) :
              i < j => ranked.value[i][ranked.key] >= ranked.value[j][ranked.key]

\* a ranking that was cut: more entities than n, and two results with
\* different keys
C7_Witness ==
    /\ ranked.ran
    /\ Len(leaderboard) > ranked.n
    /\ Len(ranked.value) = ranked.n
    /\ ranked.n >= 2
    /\ ranked.value[1][ranked.key] > ranked.value[2][ranked.key]

\* the coin has a positive price in the table
Priced(coin) == coin \in DOMAIN prices /\ prices[coin] > 0

\* C9: a coin with no entry in the price table, or a price <= 0 there, is
\* never a coin of build_liq_map's output and never the reason build_liq_map
\* fails (a failure comes from an incomplete in-range position of a priced
\* coin), whatever positions the coin has; its positions are still summed
\* into its record of aggregate_positions' output.
C9_UnpricedCoin ==
    \A c \in DOMAIN liq :
        LET ps == CohortPositions(c) IN
        /\ liq[c].ran =>
              /\ \A i \in 1..Len(liq[c].value) : Priced(liq[c].value[i].coin)
              /\ liq[c].raised =>
                    \E j \in 1..Len(ps) :
                        /\ "coin" \in DOMAIN ps[j]
                        /\ Priced(ps[j]["coin"])
                        /\ ~({"leverage", "direction", "positionValue"} \subseteq DOMAIN ps[j])
        /\ AggDone(c) /\ Len(agg[c].value) < AGG_CAP =>
              \A j \in 1..Len(ps) :
                  "coin" \in DOMAIN ps[j] /\ ~Priced(ps[j]["coin"]) =>
                      LET OfCoin(p) == Get(p, "coin", "BTC") = ps[j]["coin"]
                      IN  \E i \in 1..Len(agg[c].value) :
                              /\ agg[c].value[i].coin = ps[j]["coin"]
                              /\ agg[c].value[i].total = SumValues(SelectSeq(ps, OfCoin))

\* a coin without a price, with two valid liquidation points, one of them on
\* an incomplete record: mapped without failure, absent from the map, a
\* record of the aggregation
C9_Witness ==
    \E c \in DOMAIN liq :
        /\ liq[c].ran /\ ~liq[c].raised /\ AggDone(c)
        /\ \E j \in 1..Len(CohortPositions(c)) :
              LET p == CohortPositions(c)[j]
                  Valid(q) == ValidOf(q, p["coin"])
              IN  /\ "coin" \in DOMAIN p
                  /\ ~Priced(p["coin"])
                  /\ "leverage" \notin DOMAIN p
                  /\ Count(CohortPositions(c), Valid) >= 2
                  /\ \E i \in 1..Len(agg[c].value) : agg[c].value[i].coin = p["coin"]

\* C10: aggregate_positions, build_liq_map and get_biggest_positions return
\* a result without raising for every input, records that lack a key
\* included, and an empty input yields an empty output.
C10_NeverRaises ==
    \A c \in DOMAIN liq :
        /\ agg[c].ran => ~agg[c].raised
        /\ liq[c].ran => ~liq[c].raised
        /\ agg[c].ran /\ CohortPositions(c) = <<>> => agg[c].value = <<>>
        /\ liq[c].ran /\ CohortPositions(c) = <<>> => liq[c].value = <<>>


\* the position a raw record yields on its own
OwnPosition(i) == normalize_step(normalizer, raw_records[i], "0xA")

\* C11: when a raw record of an account is malformed, normalization skips
\* only that record: the position of every other well-formed record with a
\* non-zero amount is in the list the normalizer returns.
C11_SkipsOnlyMalformed ==
    normalized.ran =>
        \A i \in 1..Len(raw_records) :
            ~OwnPosition(i).raised /\ OwnPosition(i).out # <<>> =>
                \E k \in 1..Len(normalized.value) :
                    normalized.value[k] = OwnPosition(i).out[1]

\* the place of the first position of a coin in a list of positions
FirstIndex(ps, coin) ==
    CHOOSE i \in 1..Len(ps) : /\ ps[i]["coin"] = coin
                              /\ \A j \in 1..(i - 1) : ps[j]["coin"] # coin

\* the totals never rise along the list, and records with equal totals are in
\* the order in which their coins first occur in the cohort
SortedByTotalStable(c) ==
    \A i, j \in 1..Len(agg[c].value) :
        i < j =>
            /\ agg[c].value[i].total >= agg[c].value[j].total
            /\ agg[c].value[i].total = agg[c].value[j].total =>
                  FirstIndex(CohortPositions(c), agg[c].value[i].coin)
                      < FirstIndex(CohortPositions(c), agg[c].value[j].coin)

\* C12: aggregate_positions returns its per-coin records sorted by
\* total descending, at most 25 of them, records with equal total in the
\* order in which their coins first occur in the input, for each exchange.
C12_SortedAtMost25 ==
    \A c \in DOMAIN agg : AggDone(c) =>
        /\ SortedByTotalStable(c)
        /\ Len(agg[c].value) <= AGG_CAP

\* The place of input[i] in the stable descending order by key: after every
\* element with a greater key and after the earlier elements with its key
PlaceOf(input, key, i) ==
    Cardinality({j \in 1..Len(input) : input[j][key] > input[i][key]})
    + Cardinality({j \in 1..(i - 1) : input[j][key] = input[i][key]}) + 1

\* The first n elements of the stable descending order of input by key
StableTop(input, key, n) ==
    [k \in 1..Min(n, Len(input)) |->
       input[CHOOSE i \in 1..Len(input) : PlaceOf(input, key, i) = k]]

\* C13 as stated: the result of get_biggest_positions and of the trader
\* rankings is the first N elements of the stable descending sort of its
\* input by the key.
C13_TopOfStableSort ==
    ranked.ran => ranked.value = StableTop(ranked.input, ranked.key, ranked.n)

\* the traders process_traders does not pass over
NonZeroPnl(input) ==
    LET NonZero(t) == t["pnl"] # 0 IN SelectSeq(input, NonZero)

\* C13 amended: the result of get_biggest_positions, extract_biggest_positions,
\* process_traders_pnl, process_traders_value and build_trader_list is the
\* first N elements of the stable descending sort of its input by the key;
\* the result of process_traders is that of the traders whose pnl is not 0,
\* so that a trader with pnl 0 is left out even when a negative pnl is
\* returned.
C13_TopOfStableSortButZeroPnl ==
    ranked.ran =>
        ranked.value = StableTop(IF ranked.fn = "process_traders"
                                 THEN NonZeroPnl(ranked.input) ELSE ranked.input,
                                 ranked.key, ranked.n)

\* a ranking that leaves an entity out and returns two different entities
\* with the same key
C13_Witness ==
    /\ ranked.ran
    /\ Len(ranked.input) > Len(ranked.value)
    /\ \E i, j \in 1..Len(ranked.value) :
          /\ i < j
          /\ ranked.value[i][ranked.key] = ranked.value[j][ranked.key]
          /\ ranked.value[i] # ranked.value[j]

\* the trader records of a cohort with every position dropped whose
\* liquidation price is absent, empty, not a number, <= 0 or > 1e12
WithValidLiqOnly(traders) ==
    [i \in 1..Len(traders) |->
       [traders[i] EXCEPT !.positions = SelectSeq(@, ValidLiq)]]

SumSizes(ps) == SumSeq([i \in 1..Len(ps) |-> Get(ps[i], "size", 0)])

\* C14: a position whose liquidation price is absent, empty, non-numeric,
\* <= 0 or > 1e12 is left out of build_liq_map: the map is the one of the
\* cohort without such positions, whose coins have two or more usable
\* positions; its positionValue and size are in the coin's record of
\* aggregate_positions, and the position is in the result of
\* get_biggest_positions while there are no more than n positions.
C14_InvalidLiqLeftOut ==
    /\ \A c \in DOMAIN liq :
          LET ps == CohortPositions(c) IN
          /\ LiqDone(c) =>
                /\ liq[c].value =
                      build_liq_map(dex, WithValidLiqOnly(CohortTraders(c)),
                                    prices, <<>>).value
                /\ \A i \in 1..Len(liq[c].value) :
                      Cardinality({j \in 1..Len(ps) :
                                     ValidOf(ps[j], liq[c].value[i].coin)}) >= 2
          /\ AggDone(c) =>
                \A j \in 1..Len(ps) :
                    \E i \in 1..Len(agg[c].value) :
                        LET OfCoin(p) == p["coin"] = ps[j]["coin"] IN
                        /\ agg[c].value[i].coin = ps[j]["coin"]
                        /\ agg[c].value[i].total = SumValues(SelectSeq(ps, OfCoin))
                        /\ agg[c].value[i].longSize + agg[c].value[i].shortSize
                              = SumSizes(SelectSeq(ps, OfCoin))
    /\ biggest.ran =>
          LET all == IF dex = "hyperliquid" THEN all_positions(pos_map)
                     ELSE CohortPositions("traders")
          IN  Len(all) <= top_n =>
                  \A j \in 1..Len(all) :
                      \E k \in 1..Len(biggest.value) :
                          /\ DOMAIN all[j] \subseteq DOMAIN biggest.value[k]
                          /\ \A f \in DOMAIN all[j] : biggest.value[k][f] = all[j][f]

\* a run to its end on a coin with one usable and one unusable liquidation
\* price: the coin is in no map, in the aggregation and among the biggest
\* positions
C14_Witness ==
    /\ biggest.ran
    /\ \E c \in DOMAIN liq :
          LET ps == CohortPositions(c) IN
          /\ LiqDone(c) /\ AggDone(c)
          /\ liq[c].value = <<>>
          /\ Len(ps) = 2
          /\ \E i, j \in 1..2 : ValidLiq(ps[i]) /\ ~ValidLiq(ps[j])
          /\ Len(biggest.value) = 2
          /\ agg[c].value[1].total = SumValues(ps)

\* C15: every position a normalizer returns has leverage > 0; when the
\* source reports no leverage (missing or 0) the record carries the
\* placeholder estimate.
C15_LeveragePositive ==
    normalized.ran /\ normalizer \in {"fetch_positions", "fetch_user_positions"} =>
        \A k \in 1..Len(normalized.value) : normalized.value[k].leverage > 0

\* The signed base amount of a raw record: szi (Hyperliquid), the first
\* truthy of baseAssetAmount and szi (Drift)
BaseAmount(rec) ==
    IF normalizer = "fetch_user_positions" THEN get_or(rec, "baseAssetAmount", "szi")
    ELSE Get(rec, "szi", RawInt(0))

\* the raw records, in order, that carry a readable amount other than 0
WithAmount ==
    LET Carries(rec) == /\ IsDict(rec)
                        /\ BaseAmount(rec).kind \in {"num", "int", "e6", "e9"}
                        /\ BaseAmount(rec).num # 0
    IN  SelectSeq(raw_records, Carries)

\* the value of the raw amount v is the plain number n; a number in raw
\* precision (above 1e12) is none of the plain numbers
IsPlain(v, n) == v.kind \in {"num", "int"} /\ v.num = n

\* one position for every record that carries an amount, in their order,
\* Long for a > 0 and Short for a < 0
OnePositionEach ==
    /\ Len(normalized.value) = Len(WithAmount)
    /\ \A k \in 1..Len(normalized.value) :
          normalized.value[k].direction =
              IF BaseAmount(WithAmount[k]).num > 0 THEN "Long" ELSE "Short"

\* C16 as stated: a raw record with amount 0 yields no position, every other
\* one exactly one position, Long iff a > 0, Short iff a < 0, with size |a|.
C16_DirectionAndSize ==
    normalized.ran =>
        /\ OnePositionEach
        /\ \A k \in 1..Len(normalized.value) :
              /\ normalized.value[k].size >= 0
              /\ \/ IsPlain(BaseAmount(WithAmount[k]), normalized.value[k].size)
                 \/ IsPlain(BaseAmount(WithAmount[k]), -normalized.value[k].size)

\* C16 amended: when a record of the account makes the normalizer raise
\* (Hyperliquid), no position is returned for any record of the account;
\* otherwise a raw record with amount 0 yields no position and every other
\* one exactly one position, Long iff a > 0 and Short iff a < 0; size is
\* |a|, except that Drift stores |a| / 1e9 for an amount with |a| > 1e12;
\* size is never negative.
C16_DirectionAndScaledSize ==
    normalized.ran =>
      IF \E i \in 1..Len(raw_records) : OwnPosition(i).raised
      THEN normalized.value = <<>>
      ELSE
        /\ OnePositionEach
        /\ \A k \in 1..Len(normalized.value) :
              LET a == BaseAmount(WithAmount[k]) IN
              /\ normalized.value[k].size >= 0
              /\ IF normalizer = "fetch_user_positions" /\ a.kind = "e9" /\ a.num < -1000
                 THEN normalized.value[k].size = -a.num
                 ELSE IF normalizer = "fetch_user_positions" /\ a.kind = "e9" /\ a.num > 1000
                 THEN normalized.value[k].size = a.num
                 ELSE \/ IsPlain(a, normalized.value[k].size)
                      \/ IsPlain(a, -normalized.value[k].size)

\* Drift on a record with the amount 0 and a record with a negative amount
\* in raw precision: one Short position of the scaled size
C16_Witness ==
    /\ normalized.ran
    /\ normalizer = "fetch_user_positions"
    /\ Len(raw_records) = 2
    /\ \E i \in 1..2 : IsDict(raw_records[i]) /\ IsPlain(BaseAmount(raw_records[i]), 0)
    /\ Len(normalized.value) = 1
    /\ normalized.value[1].direction = "Short"
    /\ BaseAmount(WithAmount[1]).kind = "e9"

\* The notional field the raw record reports: positionValue (Hyperliquid),
\* the first truthy of quoteEntryAmount and quoteAssetAmount (Drift); 0 when
\* it is absent
Notional(rec) ==
    IF normalizer = "fetch_user_positions"
    THEN get_or(rec, "quoteEntryAmount", "quoteAssetAmount")
    ELSE Get(rec, "positionValue", RawInt(0))

\* the number a stored entry price stands for (Hyperliquid stores the
\* exchange's string, Drift the number)
EntryOf(pos) == IF normalizer = "fetch_user_positions" THEN pos.entryPx ELSE pos.entryPx.num

\* C17 as stated: positionValue is size * entryPrice when size and
\* entryPrice are both positive, otherwise the magnitude of the reported
\* notional field, or 0 when that is absent; it is never negative.
C17_ValueFromSizeAndEntry ==
    normalized.ran /\ (\A i \in 1..Len(raw_records) : ~OwnPosition(i).raised) =>
        \A k \in 1..Len(normalized.value) :
            LET pos == normalized.value[k] IN
            /\ pos.positionValue >= 0
            /\ IF pos.size > 0 /\ EntryOf(pos) > 0
               THEN pos.positionValue = pos.size * EntryOf(pos)
               ELSE \/ IsPlain(Notional(WithAmount[k]), pos.positionValue)
                    \/ IsPlain(Notional(WithAmount[k]), -pos.positionValue)

\* C17 amended: Drift's fetch_user_positions stores size * entryPrice when
\* entryPrice is positive and otherwise the magnitude of the reported quote
\* amount (divided by 1e6 when above 1e10), or 0 when that is absent or
\* unreadable, never a negative number; the Hyperliquid normalizers store the
\* reported positionValue as a number, or 0 when it is absent, whatever size
\* and entry price are.
C17_ValueByNormalizer ==
    normalized.ran /\ (\A i \in 1..Len(raw_records) : ~OwnPosition(i).raised) =>
        \A k \in 1..Len(normalized.value) :
            LET pos == normalized.value[k]
                q   == Notional(WithAmount[k])
            IN  IF normalizer = "fetch_user_positions"
                THEN /\ pos.positionValue >= 0
                     /\ pos.size > 0
                     /\ IF pos.entryPx > 0
                        THEN pos.positionValue = pos.size * pos.entryPx
                        ELSE IF q.kind \in {"none", "empty", "text"}
                        THEN pos.positionValue = 0
                        ELSE pos.positionValue \in {q.num, -q.num}
                ELSE pos.positionValue = q.num

\* a Hyperliquid position whose reported value is not size * entry price
C17_Witness ==
    /\ normalized.ran
    /\ normalizer = "fetch_positions"
    /\ \E k \in 1..Len(normalized.value) :
          LET pos == normalized.value[k] IN
          /\ pos.size > 0
          /\ pos.entryPx.num > 0
          /\ pos.positionValue # pos.size * pos.entryPx.num

\* the coins of a cohort's map
MapCoins(c) == {liq[c].value[i].coin : i \in 1..Len(liq[c].value)}

\* C18: a coin is a key of build_liq_map's output exactly when at least two
\* of its positions carry a valid liquidation price, its current price is
\* positive, and some bucket of a side is non-empty (an in-range position is
\* worth more than 0); no coin is a key twice; for each key both
\* longLiquidations and shortLiquidations are strictly ascending by price, and
\* every entry carries price, 10x, 25x, 50x and 100x, a tier being 0 when no
\* in-range position of that side, bucket and leverage class exists.
C18_KeysAndSortedEntries ==
    \A c \in DOMAIN liq : LiqDone(c) =>
        LET ps == CohortPositions(c) IN
        /\ \A coin \in MapCoins(c) \cup {ps[j]["coin"] : j \in 1..Len(ps)} :
              LET P == current_price(prices, coin)
                  Valid(p)  == ValidOf(p, coin)
                  Filled(p) == InRangeOf(p, coin, P) /\ p["positionValue"] > 0
              IN  coin \in MapCoins(c) <=>
                      /\ Count(ps, Valid) >= 2
                      /\ P > 0
                      /\ Count(ps, Filled) >= 1
        /\ \A i, j \in 1..Len(liq[c].value) :
              liq[c].value[i].coin = liq[c].value[j].coin => i = j
        /\ \A i \in 1..Len(liq[c].value) : \A long \in BOOLEAN :
              LET e == liq[c].value[i]
                  P == current_price(prices, e.coin)
                  w == get_bucket_size(e.coin, P)
                  L == SideList(e, long)
              IN  /\ \A k \in 1..(Len(L) - 1) : L[k]["price"] < L[k + 1]["price"]
                  /\ \A k \in 1..Len(L) :
                        /\ DOMAIN L[k] = Tiers \cup {"price"}
                        /\ \A t \in Tiers :
                              LET Here(p) == /\ InRangeOf(p, e.coin, P)
                                             /\ OnSide(p, long)
                                             /\ FloorTo(p["liquidationPx"].num, w) = L[k]["price"]
                                             /\ get_lev_cat(p["leverage"]) = t
                              IN  /\ L[k][t] >= 0
                                  /\ Count(ps, Here) = 0 => L[k][t] = 0

\* a mapped coin one side of which has two entries, built from positions
\* that came in descending order of liquidation price
C18_Witness ==
    \E c \in DOMAIN liq :
        /\ LiqDone(c)
        /\ Len(CohortPositions(c)) = 2
        /\ ValidLiq(CohortPositions(c)[1]) /\ ValidLiq(CohortPositions(c)[2])
        /\ CohortPositions(c)[1]["liquidationPx"].num > CohortPositions(c)[2]["liquidationPx"].num
        /\ \E i \in 1..Len(liq[c].value) : \E long \in BOOLEAN :
              LET L == SideList(liq[c].value[i], long)
              IN  /\ Len(L) = 2
                  /\ \E t \in Tiers : L[1][t] = 0

\* C19: aggregate_positions, build_liq_map, get_biggest_positions and
\* get_liq_risks leave their arguments as they were: across every step
\* pos_map (the traders' position lists and records), the trader lists and
\* the price table keep their keys, values and order, and the records of
\* the outputs are copies: they carry the added keys (traderAddress,
\* currentPx, distancePct) while no position of pos_map does.
C19_ArgumentsUnchanged ==
    [][ /\ pos_map' = pos_map
        /\ prices' = prices
        /\ cohorts' = cohorts
        /\ \A i \in 1..Len(pos_map') : \A j \in 1..Len(pos_map'[i].positions) :
              DOMAIN pos_map'[i].positions[j] \cap
                  {"traderAddress", "currentPx", "distancePct"} = {}
        /\ \A k \in 1..Len(biggest'.value) :
              "traderAddress" \in DOMAIN biggest'.value[k]
        /\ \A k \in 1..Len(risks'.value) :
              {"traderAddress", "currentPx", "distancePct"} \subseteq DOMAIN risks'.value[k]
      ]_vars

\* all four functions ran on the same pos_map and each returned records
C19_Witness ==
    /\ \E c \in DOMAIN agg : AggDone(c) /\ agg[c].value # <<>>
    /\ \E c \in DOMAIN liq : LiqDone(c) /\ liq[c].value # <<>>
    /\ biggest.ran /\ biggest.value # <<>>
    /\ risks.ran /\ risks.value # <<>>

\* a trader record without the key main attaches
RankingFields(t) == [k \in DOMAIN t \ {"positions"} |-> t[k]]

\* the ranking step of main has returned
AfterRanking == pc \notin {"main_rank", "returned"} /\ DOMAIN trader_records # {}

\* C20 as stated: once the ranking step has returned its trader records, no
\* later step of main changes them before they are written to the output.
C20_RankingRecordsKept ==
    [][AfterRanking => trader_records' = trader_records]_vars

\* C20 amended: once the ranking step has returned its trader records, main
\* changes them in one way only: the attach step writes the key 'positions'
\* (pos_map.get(address, [])) into every record.  The lists keep their
\* records and order, every record keeps the fields the ranking step gave
\* it, a record holding 'positions' is changed by no later step, and what
\* is written to the output is the lists of attached records.
C20_OnlyPositionsAttached ==
    [][AfterRanking =>
         /\ DOMAIN trader_records' = DOMAIN trader_records
         /\ \A c \in DOMAIN trader_records :
               /\ Len(trader_records'[c]) = Len(trader_records[c])
               /\ \A i \in 1..Len(trader_records[c]) :
                     LET t == trader_records[c][i]
                         u == trader_records'[c][i]
                     IN  /\ RankingFields(u) = RankingFields(t)
                         /\ "positions" \in DOMAIN t => u = t
                         /\ "positions" \in DOMAIN u =>
                               u.positions = pos_map_get(pos_map, t.address)
         /\ written'.ran /\ ~written.ran =>
               /\ written'.value = trader_records
               /\ \A c \in DOMAIN trader_records : \A i \in 1..Len(trader_records[c]) :
                     "positions" \in DOMAIN trader_records[c][i]
      ]_vars

\* the output was written with a ranked trader that holds a position
C20_Witness ==
    /\ written.ran
    /\ \E c \in DOMAIN written.value : \E i \in 1..Len(written.value[c]) :
          /\ written.value[c][i].positions # <<>>
          /\ written.value[c][i].accountValue > 0

\* the call of fn has returned
Returned(fn) == returned.ran /\ call.fn = fn

\* the price a GMX position is built with
GmxPrice == IF call.pos_raw.price # 0 THEN call.pos_raw.price ELSE call.lookup

\* What C21 says of every division but GMX's leverage: no exception, a
\* positive divisor under every quotient, and 0 (or, for a liquidation
\* distance, no record) when the divisor is not positive
GuardedQuotients ==
    /\ returned.ran => ~returned.raised
    /\ Returned("change24h") =>
          /\ returned.value.den > 0
          /\ call.prev <= 0 => returned.value.num = 0
    /\ Returned("liq_risk") =>
          /\ \A k \in 1..Len(returned.value) : returned.value[k]["distancePct"].den > 0
          /\ current_price(call.table, call.position["coin"]) <= 0 => returned.value = <<>>
    /\ Returned("drift_trader") =>
          /\ returned.value.roi.den > 0
          /\ SumValues(call.positions) <= 0 => returned.value.roi.num = 0
    /\ Returned("gmx_position") =>
          /\ returned.value.size.den > 0
          /\ returned.value.leverage.den > 0
          /\ GmxPrice <= 0 => returned.value.size.num = 0

\* C21 as stated: no division is executed with a divisor that is not
\* positive; the 24h change, the liquidation distance, Drift's ROI, GMX's
\* leverage and GMX's size take a fallback instead, and the fallback is 0.
C21_FallbackZero ==
    /\ GuardedQuotients
    /\ Returned("gmx_position") /\ call.pos_raw.collateral <= 0 =>
          returned.value.leverage.num = 0

\* C21 amended: no division is executed with a divisor that is not positive.
\* With such a divisor the 24h change, Drift's ROI and GMX's size are 0, a
\* liquidation distance is not computed and the position gives no risk
\* record, and GMX's leverage is 10.
C21_FallbackZeroOrTen ==
    /\ GuardedQuotients
    /\ Returned("gmx_position") /\ call.pos_raw.collateral <= 0 =>
          returned.value.leverage = Frac(10, 1)

\* a GMX position built of an action without collateral
C21_Witness ==
    /\ Returned("gmx_position")
    /\ call.pos_raw.collateral = 0
    /\ returned.value.leverage.num = 10
    /\ returned.value.positionValue > 0

\* C22: get_bucket_size(coin, P) is 1000 for BTC, 50 for ETH, 5 for SOL and
\* 10 for BNB whatever P is; for every other coin it is 500 if P >= 10000,
\* else 100 if P >= 1000, else 10 if P >= 100, else 1 if P >= 10, else 0.1 if
\* P >= 1, else 0.01 (written here in thousandths); it is strictly positive,
\* and the copies of Hyperliquid, Drift and GMX return the same width.
C22_BucketSizeTable ==
    Returned("get_bucket_size") =>
        LET P == call.price
            w == returned.value
        IN  /\ call.coin = "BTC" => w = 1000 * 1000
            /\ call.coin = "ETH" => w = 50 * 1000
            /\ call.coin = "SOL" => w = 5 * 1000
            /\ call.coin = "BNB" => w = 10 * 1000
            /\ call.coin \notin {"BTC", "ETH", "SOL", "BNB"} =>
                  /\ P >= 10000 * 1000 => w = 500 * 1000
                  /\ P < 10000 * 1000 /\ P >= 1000 * 1000 => w = 100 * 1000
                  /\ P < 1000 * 1000 /\ P >= 100 * 1000 => w = 10 * 1000
                  /\ P < 100 * 1000 /\ P >= 10 * 1000 => w = 1000
                  /\ P < 10 * 1000 /\ P >= 1000 => w = 100
                  /\ P < 1000 => w = 10
            /\ w > 0
            /\ w = get_bucket_size(call.coin, P)
            /\ w = drift_get_bucket_size(call.coin, P)
            /\ w = gmx_get_bucket_size(call.coin, P)

\* Drift's copy was asked for a coin without a width of its own at a price
\* that is exactly a threshold
C22_Witness ==
    /\ Returned("get_bucket_size")
    /\ call.copy = "drift"
    /\ call.coin = "DOGE"
    /\ call.price = 1000
    /\ returned.value = 100

\* C23: get_lev_cat gives exactly one of the four tiers: '100x' when
\* leverage >= 100, '50x' when 50 <= leverage < 100, '25x' when 25 <=
\* leverage < 50 and '10x' for every leverage below 25, leverage 0 and
\* leverage below 10 included; the three copies agree.
C23_LevCatTable ==
    Returned("get_lev_cat") =>
        LET lev == call.lev
            cat == returned.value
        IN  /\ cat \in {"10x", "25x", "50x", "100x"}
            /\ cat = "100x" <=> lev >= 100
            /\ cat = "50x" <=> (50 <= lev /\ lev < 100)
            /\ cat = "25x" <=> (25 <= lev /\ lev < 50)
            /\ cat = "10x" <=> lev < 25
            /\ cat = get_lev_cat(lev)
            /\ cat = drift_get_lev_cat(lev)
            /\ cat = gmx_get_lev_cat(lev)

\* GMX's copy was asked for leverage 0
C23_Witness ==
    /\ Returned("get_lev_cat")
    /\ call.copy = "gmx"
    /\ call.lev = 0
    /\ returned.value = "10x"

\* C24: when fetch_all_positions / fetch_positions_batch returns, the map
\* has exactly one entry for every distinct submitted address and no other
\* key, whatever order the threads finished in; a fetch that raised gives
\* [] for its own address, and every entry is what a fetch of its own
\* address came to, whatever the other fetches did.
C24_OneEntryPerAddress ==
    Returned("fetch_all_positions") =>
        LET pm == returned.value
            submitted == {call.addresses[i] : i \in 1..Len(call.addresses)}
        IN  /\ {pm[k].address : k \in 1..Len(pm)} = submitted
            /\ Len(pm) = Cardinality(submitted)
            /\ \A k \in 1..Len(pm) :
                  \E i \in 1..Len(futures) :
                      /\ futures[i].address = pm[k].address
                      /\ pm[k].positions = IF futures[i].outcome.raised THEN <<>>
                                           ELSE futures[i].outcome.value
            /\ \A a \in submitted :
                  (\A i \in 1..Len(futures) :
                       futures[i].address = a => futures[i].outcome.raised) =>
                      pos_map_get(pm, a) = <<>>

\* the map was returned for three fetches on two threads: an address
\* submitted twice, and a fetch that raised beside one that gave a position
C24_Witness ==
    /\ Returned("fetch_all_positions")
    /\ Len(futures) = 3
    /\ futures[1].address = futures[3].address
    /\ futures[1].outcome.raised
    /\ futures[2].address # futures[1].address
    /\ pos_map_get(returned.value, futures[2].address) # <<>>

\* pos_map with its entries inserted in the order o
Reordered(pm, o) == [i \in 1..Len(pm) |-> pm[o[i]]]

\* the orders the fetches behind pos_map could have completed in
CompletionOrders == Orders(1..Len(pos_map))

\* biggestPositions and liquidationRisks of a main() for a pos_map
BiggestOf(pm, n) ==
    IF normalizer = "fetch_positions" THEN get_biggest_positions(pm, n)
    ELSE extract_biggest_positions(pm, n)

RisksOf(pm) ==
    IF normalizer = "fetch_positions" THEN get_liq_risks(pm, prices)
    ELSE analyze_liquidation_risk(pm, prices).value

PositionCount == Len(Concat([i \in 1..Len(pos_map) |-> pos_map[i].positions]))

SameDistance(a, b) ==
    /\ ~frac_less(a.num, a.den, b.num, b.den)
    /\ ~frac_less(b.num, b.den, a.num, a.den)

\* both lists of the run are out
ListsOut == biggest.ran /\ risks.ran /\ pc \in {"done", "written"}

\* C25 (as stated): for fixed answers of the exchange, biggestPositions and
\* liquidationRisks are the same sequences whatever order the fetches
\* completed in, ties and ties across the cut included.
C25_SameInEveryOrder ==
    ListsOut =>
        \A o \in CompletionOrders :
            /\ BiggestOf(Reordered(pos_map, o), top_n) = biggest.value
            /\ RisksOf(Reordered(pos_map, o)) = risks.value

\* C25 (amended): whatever order the fetches completed in, the two lists
\* carry the same sequence of sort keys (positionValue, distancePct); they
\* are the same sequences of records when no two positions tie on the key.
\* Records that tie come out in the order of insertion into pos_map.
C25_SameKeysInEveryOrder ==
    ListsOut =>
        \A o \in CompletionOrders :
            LET b == BiggestOf(Reordered(pos_map, o), top_n)
                r == RisksOf(Reordered(pos_map, o))
                allb == BiggestOf(pos_map, PositionCount)
            IN  /\ Len(b) = Len(biggest.value)
                /\ \A i \in 1..Len(b) :
                      Get(b[i], "positionValue", 0) = Get(biggest.value[i], "positionValue", 0)
                /\ (\A i, j \in 1..Len(allb) :
                        i # j => Get(allb[i], "positionValue", 0) # Get(allb[j], "positionValue", 0))
                     => b = biggest.value
                /\ Len(r) = Len(risks.value)
                /\ \A i \in 1..Len(r) : SameDistance(r[i].distancePct, risks.value[i].distancePct)
                /\ (\A i, j \in 1..Len(risks.value) :
                        i # j => ~SameDistance(risks.value[i].distancePct, risks.value[j].distancePct))
                     => r = risks.value

\* two accounts answered with positions of equal value and the cut fell
\* between them
C25_Witness ==
    /\ ListsOut
    /\ Len(pos_map) = 2
    /\ top_n = 1
    /\ Len(biggest.value) = 1
    /\ \E i, j \in 1..Len(BiggestOf(pos_map, PositionCount)) :
          LET allb == BiggestOf(pos_map, PositionCount)
          IN  /\ i # j
              /\ allb[i].traderAddress # allb[j].traderAddress
              /\ Get(allb[i], "positionValue", 0) = Get(allb[j], "positionValue", 0)
              /\ Get(allb[i], "positionValue", 0) = Get(biggest.value[1], "positionValue", 0)

\* the (side, entry, tier) places of a coin's map entry that a position's
\* direction, floored liquidation price and leverage tier name
PlacesOf(e, p, w) ==
    {pl \in BOOLEAN \X (1..(Len(e.longLiquidations) + Len(e.shortLiquidations))) \X Tiers :
        /\ pl[1] = (p["direction"] = "Long")
        /\ pl[2] <= Len(SideList(e, pl[1]))
        /\ SideList(e, pl[1])[pl[2]]["price"] = FloorTo(p["liquidationPx"].num, w)
        /\ pl[3] = get_lev_cat(p["leverage"])}

\* C26: for every coin of build_liq_map's output the tier values of all its
\* long and short entries add up to the positionValue of the coin's
\* positions with a valid in-range liquidation price, and each such position
\* (of positive value) is counted at one place: the long side for direction
\* Long and the short side otherwise, the entry of its floored liquidation
\* price, the tier of its leverage.
C26_TiersSumToInRangeValue ==
    \A c \in DOMAIN liq : LiqDone(c) =>
        \A i \in 1..Len(liq[c].value) :
            LET e  == liq[c].value[i]
                P  == current_price(prices, e.coin)
                w  == get_bucket_size(e.coin, P)
                ps == CohortPositions(c)
                In(p) == InRangeOf(p, e.coin, P)
            IN  /\ SumTierTotals(e.longLiquidations) + SumTierTotals(e.shortLiquidations)
                     = SumValues(SelectSeq(ps, In))
                /\ \A j \in 1..Len(ps) :
                      In(ps[j]) /\ ps[j]["positionValue"] > 0 =>
                          /\ Cardinality(PlacesOf(e, ps[j], w)) = 1
                          /\ \A pl \in PlacesOf(e, ps[j], w) :
                                SideList(e, pl[1])[pl[2]][pl[3]] >= ps[j]["positionValue"]

\* a mapped coin with a short entry and two in-range positions, both worth
\* something, that share one tier of one entry
C26_Witness ==
    \E c \in DOMAIN liq :
        /\ LiqDone(c)
        /\ \E i \in 1..Len(liq[c].value) :
              LET e  == liq[c].value[i]
                  P  == current_price(prices, e.coin)
                  w  == get_bucket_size(e.coin, P)
                  ps == CohortPositions(c)
              IN  /\ e.shortLiquidations # <<>>
                  /\ \E j, k \in 1..Len(ps) :
                        /\ j # k
                        /\ InRangeOf(ps[j], e.coin, P) /\ InRangeOf(ps[k], e.coin, P)
                        /\ ps[j]["positionValue"] > 0 /\ ps[k]["positionValue"] > 0
                        /\ PlacesOf(e, ps[j], w) = PlacesOf(e, ps[k], w)

\* the positions of pos_map, in the order of iteration
RiskInputs == Concat([i \in 1..Len(pos_map) |-> pos_map[i].positions])

\* a Long whose liquidation price is the current price of its coin or more
LongAtOrAbove(p) ==
    /\ p["direction"] = "Long"
    /\ p["liquidationPx"].kind = "num"
    /\ p["liquidationPx"].num >= current_price(prices, p["coin"])
    /\ current_price(prices, p["coin"]) > 0

\* C27: every record of get_liq_risks / analyze_liquidation_risk has
\* 0 < distancePct < 50 with distancePct = (current - liq) / current * 100
\* for a Long and (liq - current) / current * 100 otherwise, a positive
\* current price and a positive liquidation price; the list is ascending by
\* distancePct and has at most 200 records; a Long whose liquidation price
\* is at or above the current price is not listed.
C27_RisksWithinFiftyPercent ==
    risks.ran =>
        LET r == risks.value IN
        /\ Len(r) <= RISK_CAP
        /\ \A i \in 1..Len(r) :
              LET d == r[i]["distancePct"]
                  cur == r[i]["currentPx"]
                  lq  == r[i]["liquidationPx"]
              IN  /\ cur = current_price(prices, r[i]["coin"])
                  /\ cur > 0 /\ lq > 0
                  /\ d.den = cur
                  /\ d.num = IF r[i]["direction"] = "Long" THEN cur - lq ELSE lq - cur
                  /\ 0 < d.num /\ 2 * d.num < d.den
                  /\ r[i]["direction"] = "Long" => lq < cur
        /\ \A i \in 1..(Len(r) - 1) :
              ~frac_less(r[i + 1]["distancePct"].num, r[i + 1]["distancePct"].den,
                         r[i]["distancePct"].num, r[i]["distancePct"].den)
        /\ \A j \in 1..Len(RiskInputs) :
              LongAtOrAbove(RiskInputs[j]) =>
                  \A i \in 1..Len(r) :
                      ~(/\ r[i]["direction"] = "Long"
                        /\ r[i]["liquidationPx"] = RiskInputs[j]["liquidationPx"].num
                        /\ r[i]["coin"] = RiskInputs[j]["coin"])

\* more than 200 positions were at risk and 200 are listed, beside a Long
\* whose liquidation price is the current price
C27_Witness ==
    /\ risks.ran
    /\ Len(risks.value) = RISK_CAP
    /\ Len(RiskInputs) > RISK_CAP + 1
    /\ \E j \in 1..Len(RiskInputs) : LongAtOrAbove(RiskInputs[j])
    /\ \E i \in 1..(RISK_CAP - 1) :
          frac_less(risks.value[i]["distancePct"].num, risks.value[i]["distancePct"].den,
                    risks.value[i + 1]["distancePct"].num, risks.value[i + 1]["distancePct"].den)

\* the place of a request in the order /contracts, /perpMarkets, Binance
\* (Binance symbol by symbol in the order of MAJOR_MARKETS)
RequestRank(r) ==
    CASE r = "contracts" -> 1
      [] r = "perpMarkets" -> 2
      [] OTHER -> 2 + CHOOSE i \in 1..Len(MAJOR_MARKETS) : r = "binance:" \o MAJOR_MARKETS[i]

\* the requests a step of get_market_data made
NewRequests ==
    {market_data'.requests[i] : i \in (Len(market_data.requests) + 1)..Len(market_data'.requests)}

\* C28: get_market_data asks /contracts, /perpMarkets, Binance in this
\* order; a source after /contracts is asked only when the sources before
\* it left fewer than 3 priced markets; no failure of a source leaves the
\* function; every price stored is strictly positive; the Binance fallback
\* asks for no symbol that has a positive price and changes no entry that
\* was there.
C28_SourcesInOrder ==
    [][ LET before == market_data.prices
            after  == market_data'.prices
        IN  /\ pc' # "raised"
            /\ \A i \in 1..Len(after) : after[i].price > 0
            /\ Len(market_data'.requests) >= Len(market_data.requests)
            /\ \A i \in 1..Len(market_data.requests) :
                  market_data'.requests[i] = market_data.requests[i]
            /\ \A i, j \in 1..Len(market_data'.requests) :
                  i < j => RequestRank(market_data'.requests[i])
                             < RequestRank(market_data'.requests[j])
            /\ \A r \in NewRequests : r # "contracts" => priced(before) < ENOUGH_PRICES
            /\ \A r \in NewRequests : RequestRank(r) > 2 =>
                  /\ \A k \in 1..Len(MAJOR_MARKETS) :
                        r = "binance:" \o MAJOR_MARKETS[k] => ~has_price(before, MAJOR_MARKETS[k])
                  /\ Len(after) >= Len(before)
                  /\ \A i \in 1..Len(before) : before[i].price > 0 => after[i] = before[i]
      ]_vars

\* the function returned after /contracts failed half way with one price
\* stored, /perpMarkets was asked, and Binance was asked for the symbols
\* without a price only and added one
C28_Witness ==
    /\ pc = "returned"
    /\ Len(market_data.requests) = 4
    /\ market_data.requests[2] = "perpMarkets"
    /\ \E i, j \in 1..Len(returned.value) :
          /\ returned.value[i].source = "contracts"
          /\ returned.value[i].symbol = "SOL"
          /\ returned.value[j].source = "binance"
    /\ \A i \in 1..Len(market_data.requests) : market_data.requests[i] # "binance:SOL"

\* the coin build_trader_list gives a raw action
SymbolOf(action) == market_to_symbol(call.markets, lower(action.marketAddress))

\* the entry of raw_traders with the address
RawOf(address) ==
    call.raw_traders[CHOOSE i \in 1..Len(call.raw_traders) : call.raw_traders[i].address = address]

\* C29: every trader of build_trader_list's result has at most one position
\* per coin; the position of a coin is built from the trader's first raw
\* action whose market maps to the coin; later actions on the coin and
\* actions on unmapped markets add nothing; the list has at most TOP_N
\* traders and is sorted by accountValue descending.
C29_OnePositionPerCoin ==
    Returned("build_trader_list") =>
        LET out == returned.value IN
        /\ ~returned.raised
        /\ Len(out) <= GMX_TOP_N
        /\ \A k \in 1..(Len(out) - 1) : out[k].accountValue >= out[k + 1].accountValue
        /\ \A k \in 1..Len(out) :
              LET ps   == out[k].positions
                  acts == RawOf(out[k].address).positions_raw
                  mapped == {SymbolOf(acts[a]) : a \in 1..Len(acts)} \ {"UNKNOWN"}
              IN  /\ \A i, j \in 1..Len(ps) : ps[i].coin = ps[j].coin => i = j
                  /\ {ps[i].coin : i \in 1..Len(ps)} = mapped
                  /\ \A i \in 1..Len(ps) :
                        \E a \in 1..Len(acts) :
                            /\ SymbolOf(acts[a]) = ps[i].coin
                            /\ \A b \in 1..(a - 1) : SymbolOf(acts[b]) # ps[i].coin
                            /\ ps[i] = gmx_position(acts[a], ps[i].coin,
                                         price_lookup(call.markets, call.fallback_prices,
                                                      ps[i].coin)).value

\* more traders than TOP_N went in and TOP_N came out, each with one
\* position built of three actions: two on one coin, one on no market
C29_Witness ==
    /\ Returned("build_trader_list")
    /\ Len(call.raw_traders) > GMX_TOP_N
    /\ Len(returned.value) = GMX_TOP_N
    /\ returned.value[1].accountValue > returned.value[GMX_TOP_N].accountValue
    /\ \A k \in 1..Len(returned.value) :
          /\ Len(returned.value[k].positions) = 1
          /\ Len(RawOf(returned.value[k].address).positions_raw) = 3

\* C30 (as stated): every position GMX build_trader_list builds with a
\* non-empty liquidationPx stores a positive liquidation price strictly on
\* the loss side of entryPx (below for a Long, above for a Short), for every
\* price > 0 and every leverage, the rounding to 2 decimals included.
C30_LiqOnLossSide ==
    (Returned("gmx_position") /\ ~returned.raised
       /\ returned.value.liquidationPx # LiqEmpty) =>
        /\ returned.value.liquidationPx.num > 0
        /\ returned.value.direction = "Long" =>
              returned.value.liquidationPx.num < returned.value.entryPx
        /\ returned.value.direction # "Long" =>
              returned.value.liquidationPx.num > returned.value.entryPx

====
